---------------------------- MODULE Spec2Model ----------------------------
(***************************************************************************)
(* A model of the video-downloader repository.                             *)
(*                                                                         *)
(*   Part I   URLs and site classification (both downloaders)              *)
(*   Part II  OptimizedVideoDownloader: the batch orchestrator, its worker *)
(*            threads, the site handlers and the summary report            *)
(*            (src/src/optimized_video_downloader.py), specification Spec  *)
(*   Part III VideoDownloader.download_video: resolver download, site      *)
(*            handler, fetch and post-processing                           *)
(*            (src/src/video_downloader.py), specification SpecVD          *)
(*   Part IV  the three classifiers of a URL, specification SpecCls        *)
(*   Part V   reconciliation of a download directory, specification        *)
(*            SpecRec                                                      *)
(*   Part VI  the browser strategies, specification SpecSel                *)
(*   Part VII the window of VideoDownloaderGUI                             *)
(*            (src/src/video_downloader_gui.py), specification SpecGui     *)
(*   Part VIII the raw page scrape and its validity check, specification   *)
(*            SpecScrape                                                   *)
(*                                                                         *)
(* Abstractions.  A URL string is represented by the set of platform       *)
(* domain fragments that occur in its host and the set that occur in the   *)
(* rest of the string (path, query, fragment): the program only ever asks  *)
(* of a URL whether such a fragment is a substring.  The external resolver *)
(* (yt-dlp), the browser and the transcoder are not modelled: each call is *)
(* a nondeterministic choice over the outcomes its call site tells apart.  *)
(* Wall-clock fields (download_time, total_time) are left out.             *)
(***************************************************************************)
EXTENDS Integers, Sequences, FiniteSets, TLC

(***************************************************************************)
(* Bounds of the model.                                                    *)
(***************************************************************************)
\* longest URL list handed to one download_multiple_videos call
MaxUrls == 2
\* number of worker threads started over all the calls of one instance
MaxTasks == 2
\* tokens of a string handed to _is_valid_video_url
MaxTokens == 3
\* elements of a scraped page that hold a candidate
MaxCands == 2
\* worker threads one window starts
MaxWorkers == 2
\* number of reconciliation steps (passes or single verifications) on one directory
MaxPasses == 2
\* iframes of the page a browser run walks through
MaxIframes == 2

(***************************************************************************)
(* Part I.  URLs and classification.                                       *)
(***************************************************************************)
\* A URL value as a caller can pass it.  isStr is FALSE for a value that is
\* not a string (None); wellFormed says urlparse finds a scheme and a netloc.
Url(isStr, wellFormed, host, rest) ==
    [isStr |-> isStr, wellFormed |-> wellFormed, host |-> host, rest |-> rest]

\* https://www.bilibili.com/video/BV1
UrlBilibili == Url(TRUE, TRUE, {"bilibili.com"}, {})
\* https://tv.sohu.com/v/xxx.html
UrlSohu == Url(TRUE, TRUE, {"sohu.com"}, {})
\* https://unsupported.example/x
UrlUnsupported == Url(TRUE, TRUE, {}, {})
\* https://unsupported.example/x?from=tv.sohu.com
UrlForeignHost == Url(TRUE, TRUE, {}, {"sohu.com"})
\* None
UrlNone == Url(FALSE, FALSE, {}, {})

\* `domain in url`: a substring test over the whole URL string
InUrl(domain, url) == domain \in (url.host \cup url.rest)

\* `site in domain` where domain = urlparse(url).netloc.lower()
InHost(domain, url) == domain \in url.host

SeqMin(S) == CHOOSE x \in S : \A y \in S : x <= y

\* VideoDownloaderConfig.supported_sites, in insertion order
supported_sites ==
    << [site |-> "bilibili", domain |-> "bilibili.com",
        formats |-> <<"100024+30280", "100023+30232", "100022+30216">>],
       [site |-> "sohu", domain |-> "sohu.com",
        formats |-> <<"best", "worst">>],
       [site |-> "360kan", domain |-> "360kan.com",
        formats |-> <<"best", "worst">>] >>

SiteConfig(site) ==
    supported_sites[CHOOSE i \in 1..Len(supported_sites) : supported_sites[i].site = site]

\* OptimizedVideoDownloader.detect_site: the first configured site whose domain
\* is a substring of the URL; `in` raises TypeError on a value that is no string
detect_site(url) ==
    IF ~url.isStr THEN "TypeError"
    ELSE LET hits == {i \in 1..Len(supported_sites) : InUrl(supported_sites[i].domain, url)}
         IN  IF hits = {} THEN "unknown" ELSE supported_sites[SeqMin(hits)].site

\* OptimizedVideoDownloader.setup_handlers: the sites that have a handler
handlers == {"bilibili", "sohu", "360kan"}

(***************************************************************************)
(* Part II.  OptimizedVideoDownloader.                                     *)
(***************************************************************************)
VARIABLES
    selfResults,  \* self.results of the downloader instance
    tasks,        \* worker threads started so far, over all calls
    mainPc,       \* orchestrator: "idle", or "running" inside download_multiple_videos
    urls,         \* the argument of the current (or last) call
    results,      \* the call's local `results` list
    started,      \* threads started by the current call
    joined,       \* threads joined by the current call
    tpc,          \* per thread: "new", "classify", "download", "append", "finished", "died"
    tres,         \* per thread: its DownloadResult, or NoResult
    tfmt,         \* per thread: resolver invocations made (formats tried)
    touts,        \* per thread: the outcomes of its resolver invocations, in order
    report        \* the report the call returned, NoReport until it returns

varsOpt == <<selfResults, tasks, mainPc, urls, results, started, joined,
             tpc, tres, tfmt, touts, report>>

\* the state of VideoDownloader.download_video (Part III)
VARIABLES
    vpc,       \* "off", "worker", "validate", "resolver", "lookup", "extract", "fetch",
               \* "done", "stopped"
    vurl,      \* the url argument of download_video
    vdir0,     \* the download directory when the task started
    vdir,      \* the download directory
    vhandler,  \* the site handler picked from supported_sites, or "none"
    vinfo,     \* the video_info the handler returned, or NoInfo
    vnet,      \* resolver, network and browser invocations the task has made
    vret,      \* what download_video returned: "unset", "True", "False"
    vexc,      \* the exception that left download_video, or "none"
    vcalls,    \* the calls the task has made, in order, each with the URL it was given
    vstop,     \* the value of vpc when stop_download set is_downloading to False, or "none"
    vsnap      \* between the two directory snapshots of _download_video_with_ytdlp:
               \* the files this task's resolver call created (wrote) and the files
               \* another task created in the same directory (other)

varsVD == <<vpc, vurl, vdir0, vdir, vhandler, vinfo, vnet, vret, vexc, vcalls, vstop, vsnap>>

\* the classifiers applied to one URL (Part IV)
VARIABLES
    cu,        \* the URL handed to the classifiers
    cls        \* per classifier: what it returned for cu, or "unset"

varsCls == <<cu, cls>>

\* reconciliation of one directory (Part V)
VARIABLES
    rdir,      \* the download directory
    rprev,     \* the directory before the last step
    rops,      \* the operations the last step made on the directory
    rstep,     \* the last step: [kind |-> "none"], a pass, or a verification with its file and probe
    rsteps     \* steps made so far

varsRec == <<rdir, rprev, rops, rstep, rsteps>>

\* one run of a browser strategy (Part VI)
VARIABLES
    sfn,       \* "_selenium_extract_sohu" or "_selenium_extract_360kan", "off" if none runs
    spc,       \* the driver call the run is about to make, "finally", or "done"
    sdriver,   \* the local `driver` is set: webdriver.Chrome returned
    sleft,     \* iframes of the loop not yet visited
    slog,      \* the driver calls made so far, in order
    sret       \* what the function returned: "unset", "src", "none"

varsSel == <<sfn, spc, sdriver, sleft, slog, sret>>

\* the window of VideoDownloaderGUI (Part VII)
VARIABLES
    gmain,           \* the main thread: "off", "idle", "joining" (inside stop_download's
                     \* join), "draining" (inside the loop of process_queue)
    is_downloading,  \* self.is_downloading
    download_btn,    \* state of the download button: "normal" or "disabled"
    stop_btn,        \* state of the stop button
    status_var,      \* the status line
    message_queue,   \* self.message_queue, oldest message first
    wpc,             \* per worker: "new", "init", "check", "download", "ended"
    wput,            \* per worker: the types of the messages it has put, in order
    wdone            \* per worker: how many of its messages process_queue has handled

varsGui == <<gmain, is_downloading, download_btn, stop_btn, status_var, message_queue,
             wpc, wput, wdone>>

\* the raw page scrape (Part VIII)
VARIABLES
    ppc,       \* "off", "check", "collect", "pick", "done"
    pu,        \* the string _is_valid_video_url is called on
    pvalid,    \* what it returned: "True" or "False", "unset" before
    ppage,     \* the elements of the page _manual_extract_pinshan fetched
    pcands,    \* video_urls: the entries collected, each with the place it came from
    pres       \* what _manual_extract_pinshan did: NoScrape, an info or ParseError

varsScrape == <<ppc, pu, pvalid, ppage, pcands, pres>>

\* what the steps of one part leave alone
varsNotOpt == <<varsVD, varsCls, varsRec, varsSel, varsGui, varsScrape>>
varsNotVD == <<varsOpt, varsCls, varsRec, varsSel, varsGui, varsScrape>>
varsNotCls == <<varsOpt, varsVD, varsRec, varsSel, varsGui, varsScrape>>
varsNotRec == <<varsOpt, varsVD, varsCls, varsSel, varsGui, varsScrape>>
varsNotSel == <<varsOpt, varsVD, varsCls, varsRec, varsGui, varsScrape>>
varsNotGui == <<varsOpt, varsVD, varsCls, varsRec, varsSel, varsScrape>>
varsNotScrape == <<varsOpt, varsVD, varsCls, varsRec, varsSel, varsGui>>

Threads == 1..MaxUrls

BatchUrls == {UrlSohu, UrlUnsupported, UrlForeignHost, UrlNone}

RECURSIVE SeqsUpTo(_, _)
SeqsUpTo(S, n) ==
    IF n = 0 THEN {<<>>}
    ELSE LET shorter == SeqsUpTo(S, n - 1)
         IN  shorter \cup {Append(s, x) : s \in {q \in shorter : Len(q) = n - 1}, x \in S}

NoResult == [status |-> "none"]
NoReport == [total_videos |-> -1]

\* DownloadResult.__init__; id stands for the identity of the Python object
DownloadResult(id, url, site) ==
    [id |-> id, url |-> url, site |-> site, status |-> "pending",
     files |-> <<>>, error_message |-> ""]

TimeoutMessage == "download timeout (>180s)"
ExceptionMessage == "str(e)"
UnsupportedMessage == "unsupported site type"

Outcomes == {"ok", "nonzero", "timeout", "exception"}

InitOpt ==
    /\ selfResults = <<>>
    /\ tasks = 0
    /\ mainPc = "idle"
    /\ urls = <<>>
    /\ results = <<>>
    /\ started = 0
    /\ joined = 0
    /\ tpc = [t \in Threads |-> "new"]
    /\ tres = [t \in Threads |-> NoResult]
    /\ tfmt = [t \in Threads |-> 0]
    /\ touts = [t \in Threads |-> <<>>]
    /\ report = NoReport

\* download_multiple_videos, lines 303-307: a call with the URL list us
download_multiple_videos(us) ==
    /\ mainPc = "idle"
    /\ tasks + Len(us) <= MaxTasks
    /\ mainPc' = "running"
    /\ urls' = us
    /\ results' = <<>>
    /\ started' = 0
    /\ joined' = 0
    /\ tpc' = [t \in Threads |-> "new"]
    /\ tres' = [t \in Threads |-> NoResult]
    /\ tfmt' = [t \in Threads |-> 0]
    /\ touts' = [t \in Threads |-> <<>>]
    /\ report' = NoReport
    /\ UNCHANGED <<selfResults, tasks>>
    /\ UNCHANGED varsNotOpt

\* download_multiple_videos, lines 314-321: one turn of the loop that starts
\* the threads; time.sleep(0.5) synchronises nothing
StartThread ==
    /\ mainPc = "running"
    /\ started < Len(urls)
    /\ started' = started + 1
    /\ tasks' = tasks + 1
    /\ tpc' = [tpc EXCEPT ![started + 1] = "classify"]
    /\ UNCHANGED <<selfResults, mainPc, urls, results, joined, tres, tfmt, touts, report>>
    /\ UNCHANGED varsNotOpt

\* a join that returns without waiting for the thread
JoinThreadNoWait ==
    /\ mainPc = "running"
    /\ started = Len(urls)
    /\ joined < Len(urls)
    /\ joined' = joined + 1
    /\ UNCHANGED <<selfResults, tasks, mainPc, urls, results, started, tpc, tres,
                   tfmt, touts, report>>
    /\ UNCHANGED varsNotOpt

\* download_multiple_videos, lines 324-325: thread.join() returns once the
\* thread has ended, by returning or by an exception
JoinThread ==
    /\ mainPc = "running"
    /\ started = Len(urls)
    /\ joined < Len(urls)
    /\ tpc[joined + 1] \in {"finished", "died"}
    /\ joined' = joined + 1
    /\ UNCHANGED <<selfResults, tasks, mainPc, urls, results, started, tpc, tres,
                   tfmt, touts, report>>
    /\ UNCHANGED varsNotOpt

\* download_single_video, lines 277-299 up to the handler call: classification,
\* the result object, the unknown-site return and the handler lookup
AfterClassify(t, url) ==
    LET site == detect_site(url)
        r == DownloadResult(t, url, site)
    IN  IF site = "TypeError" THEN [pc |-> "died", res |-> NoResult]
        ELSE IF site = "unknown"
             THEN [pc |-> "append",
                   res |-> [r EXCEPT !.status = "failed",
                                     !.error_message = UnsupportedMessage]]
        ELSE IF site \in handlers THEN [pc |-> "download", res |-> r]
        ELSE [pc |-> "append",
              res |-> [r EXCEPT !.status = "failed", !.error_message = "no handler"]]

Classify(t) ==
    /\ tpc[t] = "classify"
    /\ LET next == AfterClassify(t, urls[t])
       IN  /\ tpc' = [tpc EXCEPT ![t] = next.pc]
           /\ tres' = [tres EXCEPT ![t] = next.res]
    /\ UNCHANGED <<selfResults, tasks, mainPc, urls, results, started, joined,
                   tfmt, touts, report>>
    /\ UNCHANGED varsNotOpt

\* a handler that keeps the result it works on in a field of the handler
\* object, which all tasks of one site share
HandlerWriteShared(res, t, field, value) ==
    [u \in DOMAIN res |->
        IF res[u] # NoResult /\ res[u].site = res[t].site
        THEN [res[u] EXCEPT ![field] = value] ELSE res[u]]

\* a handler's write to a field of the result object it was passed
HandlerWrite(res, t, field, value) ==
    [res EXCEPT ![t] = [res[t] EXCEPT ![field] = value]]

\* a handler that ends an exhausted format loop with the status 'error'
ExhaustedError(res, t) == HandlerWrite(res, t, "status", "error")

\* SiteHandler.download, the statement after the loop: result.status = 'failed'
Exhausted(res, t) == HandlerWrite(res, t, "status", "failed")

\* a format loop that is left at the first failed format
LoopEndsAtFirstFailure(k, formats) == TRUE

\* `for format_str in site_config['formats']`: the turn k was the last one
LoopEnds(k, formats) == k = Len(formats)

\* a handler that runs a failed format a second time before it moves on
AttemptWithRetry(t, o) ==
    /\ tpc[t] = "download"
    /\ LET formats == SiteConfig(tres[t].site).formats
           k == (Len(touts[t]) \div 2) + 1
           r1 == CASE o = "ok" -> HandlerWrite(tres, t, "status", "success")
                   [] o = "nonzero" -> tres
                   [] o = "timeout" -> HandlerWrite(tres, t, "error_message", TimeoutMessage)
                   [] o = "exception" -> HandlerWrite(tres, t, "error_message", ExceptionMessage)
       IN  /\ k <= Len(formats)
           /\ tfmt' = [tfmt EXCEPT ![t] = k]
           /\ touts' = [touts EXCEPT ![t] = Append(@, o)]
           /\ IF o = "ok"
              THEN /\ tres' = r1
                   /\ tpc' = [tpc EXCEPT ![t] = "append"]
              ELSE IF Len(touts[t]) + 1 = 2 * Len(formats)
              THEN /\ tres' = Exhausted(r1, t)
                   /\ tpc' = [tpc EXCEPT ![t] = "append"]
              ELSE /\ tres' = r1
                   /\ tpc' = tpc
    /\ UNCHANGED <<selfResults, tasks, mainPc, urls, results, started, joined, report>>
    /\ UNCHANGED varsNotOpt

\* BilibiliHandler / SohuHandler / Kan360Handler.download: one turn of the loop
\* over the formats, i.e. one subprocess.run of the resolver with outcome o
Attempt(t, o) ==
    /\ tpc[t] = "download"
    /\ LET formats == SiteConfig(tres[t].site).formats
           k == tfmt[t] + 1
           r1 == CASE o = "ok" -> HandlerWrite(tres, t, "status", "success")
                   [] o = "nonzero" -> tres
                   [] o = "timeout" -> HandlerWrite(tres, t, "error_message", TimeoutMessage)
                   [] o = "exception" -> HandlerWrite(tres, t, "error_message", ExceptionMessage)
       IN  /\ k <= Len(formats)
           /\ tfmt' = [tfmt EXCEPT ![t] = k]
           /\ touts' = [touts EXCEPT ![t] = Append(@, o)]
           /\ IF o = "ok"
              THEN /\ tres' = r1
                   /\ tpc' = [tpc EXCEPT ![t] = "append"]
              ELSE IF LoopEnds(k, formats)
              THEN /\ tres' = Exhausted(r1, t)
                   /\ tpc' = [tpc EXCEPT ![t] = "append"]
              ELSE /\ tres' = r1
                   /\ tpc' = tpc
    /\ UNCHANGED <<selfResults, tasks, mainPc, urls, results, started, joined, report>>
    /\ UNCHANGED varsNotOpt

\* an append that overwrites the last entry, as a read-modify-write of the list
\* that read it before the previous append landed
ListAppendLost(list, r) ==
    IF list = <<>> THEN <<r>> ELSE [list EXCEPT ![Len(list)] = r]

\* list.append, atomic under the interpreter lock
ListAppend(list, r) == Append(list, r)

\* download_worker, line 311: results.append(result)
AppendResult(t) ==
    /\ tpc[t] = "append"
    /\ results' = ListAppend(results, tres[t])
    /\ tpc' = [tpc EXCEPT ![t] = "finished"]
    /\ UNCHANGED <<selfResults, tasks, mainPc, urls, started, joined, tres, tfmt, touts, report>>
    /\ UNCHANGED varsNotOpt

\* DownloadResult.to_dict
to_dict(r) ==
    [url |-> r.url, site |-> r.site, status |-> r.status, files |-> r.files,
     error_message |-> r.error_message]

ZeroDivisionError == [num |-> 0, den |-> 0]

\* Python's / on numbers, kept exact as a fraction
Div(a, b) == IF b = 0 THEN ZeroDivisionError ELSE [num |-> a, den |-> b]

\* a rate computed without the guard for the empty list
SuccessRateUnguarded(success_count, n) ==
    LET q == Div(success_count, n)
    IN  IF q = ZeroDivisionError THEN q ELSE [q EXCEPT !.num = q.num * 100]

\* generate_summary_report, line 341:
\* success_count / len(self.results) * 100 if self.results else 0
SuccessRate(success_count, n) ==
    IF n # 0 THEN LET q == Div(success_count, n) IN [q EXCEPT !.num = q.num * 100]
    ELSE [num |-> 0, den |-> 1]

\* a report that lists the results last-appended first
generate_summary_report_reversed(rs) ==
    LET success_count == Cardinality({i \in 1..Len(rs) : rs[i].status = "success"})
    IN  [total_videos |-> Len(rs),
         success_count |-> success_count,
         failed_count |-> Len(rs) - success_count,
         success_rate |-> IF Len(rs) = 0 THEN [num |-> 0, den |-> 1]
                          ELSE [num |-> success_count * 100, den |-> Len(rs)],
         results |-> [i \in 1..Len(rs) |-> to_dict(rs[Len(rs) + 1 - i])]]

\* generate_summary_report, lines 334-344, over self.results = rs
generate_summary_report(rs) ==
    LET success_count == Cardinality({i \in 1..Len(rs) : rs[i].status = "success"})
        failed_count == Len(rs) - success_count
    IN  [total_videos |-> Len(rs),
         success_count |-> success_count,
         failed_count |-> failed_count,
         success_rate |-> SuccessRate(success_count, Len(rs)),
         results |-> [i \in 1..Len(rs) |-> to_dict(rs[i])]]

\* download_multiple_videos, lines 327-330: self.results.extend(results) and
\* the report over self.results
BuildReport ==
    /\ mainPc = "running"
    /\ started = Len(urls)
    /\ joined = Len(urls)
    /\ selfResults' = selfResults \o results
    /\ report' = generate_summary_report(selfResults \o results)
    /\ mainPc' = "idle"
    /\ UNCHANGED <<tasks, urls, results, started, joined, tpc, tres, tfmt, touts>>
    /\ UNCHANGED varsNotOpt

NextOpt ==
    \/ \E us \in SeqsUpTo(BatchUrls, MaxUrls) : download_multiple_videos(us)
    \/ StartThread
    \/ JoinThread
    \/ \E t \in Threads : Classify(t)
    \/ \E t \in Threads, o \in Outcomes : Attempt(t, o)
    \/ \E t \in Threads : AppendResult(t)
    \/ BuildReport

\* https://tv.360kan.com/player?id=1
Url360kan == Url(TRUE, TRUE, {"360kan.com"}, {})

\* the URLs of the calls that hand download_single_video one URL at a time: one
\* per platform of supported_sites, one of no platform and a value that is no string
TaskUrls == {UrlBilibili, UrlSohu, Url360kan, UrlUnsupported, UrlNone}

\* download_multiple_videos([u]): download_single_video runs in the one worker
NextTask ==
    \/ \E u \in TaskUrls : download_multiple_videos(<<u>>)
    \/ StartThread
    \/ JoinThread
    \/ \E t \in Threads : Classify(t)
    \/ \E t \in Threads, o \in Outcomes : Attempt(t, o)
    \/ \E t \in Threads : AppendResult(t)
    \/ BuildReport

\* A started thread is scheduled until it ends, and subprocess.run returns or
\* raises within config.timeout (lines 110-113): each step of a worker that is
\* enabled is eventually taken.
TaskFairness ==
    \A t \in Threads :
        /\ WF_varsOpt(Classify(t))
        /\ WF_varsOpt(\E o \in Outcomes : Attempt(t, o))
        /\ WF_varsOpt(AppendResult(t))

(***************************************************************************)
(* Part III.  VideoDownloader.download_video.                              *)
(*                                                                         *)
(* The download directory is the set of the files in it (downloader.log is *)
(* left out: every scan of the program skips *.log).  A file name is       *)
(* <stem>[.<fmt>].<ext>, where fmt is the resolver's format qualifier      *)
(* (f137: a video-only stream, f140: an audio-only stream); size is 0 for  *)
(* an empty file and 1 for a file with content.  Titles hold no '.f'.      *)
(***************************************************************************)
\* https://baike.baidu.com/item/x
UrlBaidu == Url(TRUE, TRUE, {"baike.baidu.com"}, {})
\* https://www.pinshan.com/v/1
UrlPinshan == Url(TRUE, TRUE, {"pinshan.com"}, {})
\* bilibili.com/video/BV1 (no scheme)
UrlMalformed == Url(TRUE, FALSE, {}, {"bilibili.com"})

VDUrls == {UrlBaidu, UrlBilibili, UrlPinshan, UrlSohu, Url360kan, UrlUnsupported,
           UrlForeignHost, UrlMalformed, UrlNone}

\* VideoDownloader.supported_sites, in insertion order
vd_supported_sites ==
    << [domain |-> "baike.baidu.com", handler |-> "_extract_baidu_video"],
       [domain |-> "bilibili.com", handler |-> "_extract_bilibili_video"],
       [domain |-> "pinshan.com", handler |-> "_extract_pinshan_video"],
       [domain |-> "sohu.com", handler |-> "_extract_sohu_video"],
       [domain |-> "360kan.com", handler |-> "_extract_360kan_video"] >>

File(stem, fmt, ext, size) == [stem |-> stem, fmt |-> fmt, ext |-> ext, size |-> size]
Name(f) == [stem |-> f.stem, fmt |-> f.fmt, ext |-> f.ext]
Names(dir) == {Name(f) : f \in dir}

\* open(path, 'wb') / ffmpeg -y: the path is created or replaced
WriteFile(dir, f) == {g \in dir : Name(g) # Name(f)} \cup {f}

\* the resolver in download mode does not overwrite a file that exists
ResolverWrite(dir, fs) == dir \cup {f \in fs : Name(f) \notin Names(dir)}

\* `'.f' in file_path.name`
HasDotF(f) == f.fmt # "" \/ f.ext = "flv"

NoInfo == [title |-> "none"]

\* a call the task makes, with the URL it is given: "page" is the url argument
\* of download_video, "media" a URL a handler found, "none" for no URL
Call(name, url) == [call |-> name, url |-> url]

\* _validate_url: urlparse finds a scheme and a netloc
_validate_url(url) == url.isStr /\ url.wellFormed

\* download_video, lines 145-152: the first site of supported_sites that is a
\* substring of the host
HandlerLookup(url) ==
    LET hits == {i \in 1..Len(vd_supported_sites) : InHost(vd_supported_sites[i].domain, url)}
    IN  IF hits = {} THEN "none" ELSE vd_supported_sites[SeqMin(hits)].handler

\* an except chain without the final `except Exception`
CatchNamedOnly(exc) ==
    IF exc \in {"UnsupportedSiteError", "ParseError", "NetworkError", "FileError"}
    THEN [ret |-> "False", exc |-> "none"]
    ELSE [ret |-> "unset", exc |-> exc]

\* download_video, lines 166-181: the except clauses of the task boundary
Catch(exc) ==
    IF exc \in {"UnsupportedSiteError", "ParseError", "NetworkError", "FileError"}
    THEN [ret |-> "False", exc |-> "none"]
    ELSE [ret |-> "False", exc |-> "none"]

(* ---- _post_process_downloaded_files --------------------------------- *)
VideoExts == {"mp4", "mkv", "webm", "avi"}
AudioExts == {"m4a", "mp3", "aac", "wav"}

video_files(dir) == {f \in dir : f.ext \in VideoExts /\ HasDotF(f)}
audio_files(dir) == {f \in dir : f.ext \in AudioExts /\ HasDotF(f)}
mp4_files(dir) == {f \in dir : f.ext = "mp4" /\ ~HasDotF(f)}

\* the bases (Path(file).stem.split('.f')[0]) that a video-only and an
\* audio-only file share
PairBases(dir) ==
    {v.stem : v \in {w \in video_files(dir) : \E a \in audio_files(dir) : a.stem = w.stem}}

\* outcomes of one _merge_video_audio: exit 0; exit non-zero without or with an
\* output file left behind; timeout (the killed transcoder leaves its output);
\* the transcoder is not at its path
MergeOutcomes == {"ok", "nonzero", "nonzero_partial", "timeout", "notfound"}

\* outcomes of one _verify_and_fix_audio: the probe finds no audio stream (or
\* fails); the stream is healthy; the repair succeeds; the repair exits
\* non-zero; the repair times out and its output file stays
VerifyOutcomes == {"no_audio", "healthy", "fixed", "fix_failed", "fix_timeout"}

\* _merge_video_audio: output_path
MergedFile(base) == File(base \o "_merged", "", "mp4", 1)

\* _fix_audio_stream: fixed_file
FixedFile(name) == File(name.stem \o "_fixed_audio", "", "mp4", 1)

\* the sequences that list every element of the set S once
RECURSIVE Perms(_)
Perms(S) ==
    IF S = {} THEN {<<>>}
    ELSE UNION {{<<x>> \o q : q \in Perms(S \ {x})} : x \in S}

\* an operation on the download directory: "merge" and "repair" are
\* transcoder runs on the named input, "write", "remove" and "rename" are what
\* happens to the named path
Op(op, name) == [op |-> op, name |-> name]

\* os.remove of the paths ns
RemoveNames(dir, ns) == {f \in dir : Name(f) \notin ns}

\* a merge that removes its two sources whatever the transcoder did
merge_one_removing(st, v, a, o) ==
    LET out == MergedFile(v.stem)
        gone == RemoveNames(st.dir, {Name(v), Name(a)})
    IN  IF o = "ok"
        THEN [dir |-> WriteFile(gone, out),
              ops |-> st.ops \cup {Op("merge", Name(v)), Op("write", Name(out))},
              merged |-> st.merged \cup {Name(out)}, probed |-> st.probed]
        ELSE [dir |-> gone, ops |-> st.ops \cup {Op("merge", Name(v))}, merged |-> st.merged,
              probed |-> st.probed]

\* _merge_video_audio(v, a, base) with transcoder outcome o, from the state st
\* = [dir, ops, merged, probed]; a transcoder that finds an input missing exits
\* non-zero before it opens its output
merge_one(st, v, a, o) ==
    LET present == Name(v) \in Names(st.dir) /\ Name(a) \in Names(st.dir)
        eff == IF ~present /\ o # "notfound" THEN "nonzero" ELSE o
        out == MergedFile(v.stem)
        tried == st.ops \cup {Op("merge", Name(v))}
    IN  CASE eff = "ok" ->
               [dir |-> WriteFile(RemoveNames(st.dir, {Name(v), Name(a)}), out),
                ops |-> tried \cup {Op("write", Name(out)), Op("remove", Name(v)),
                                    Op("remove", Name(a))},
                merged |-> st.merged \cup {Name(out)},
                probed |-> st.probed]
          [] eff \in {"nonzero_partial", "timeout"} ->
               [dir |-> WriteFile(st.dir, out),
                ops |-> tried \cup {Op("write", Name(out))},
                merged |-> st.merged,
                probed |-> st.probed]
          [] OTHER -> [st EXCEPT !.ops = tried]

\* _post_process_downloaded_files, lines 1215-1225: the loop over video_files
\* in the order vorder, from each state of the set S and over every outcome of
\* the transcoder; pick[b] is the first file of audio_files with base b
RECURSIVE MergeLoop(_, _, _)
MergeLoop(S, vorder, pick) ==
    IF vorder = <<>> THEN S
    ELSE LET v == Head(vorder)
         IN  MergeLoop({merge_one(st, v, pick[v.stem], o) : st \in S, o \in MergeOutcomes},
                       Tail(vorder), pick)

\* _verify_and_fix_audio on the path n, with the outcome label
VerifyOne(st, n, label) ==
    LET sibling == Name(FixedFile(n))
        repairing == st.ops \cup {Op("repair", n)}
        seen == st.probed \cup {n}
    IN  IF n \notin Names(st.dir) THEN st
        ELSE CASE label = "fixed" ->
                    [st EXCEPT !.dir = WriteFile(RemoveNames(st.dir, {n, sibling}),
                                                 File(n.stem, n.fmt, n.ext, 1)),
                               !.ops = repairing \cup {Op("write", sibling), Op("remove", n),
                                                     Op("rename", sibling)},
                               !.probed = seen]
               [] label = "fix_failed" ->
                    [st EXCEPT !.dir = RemoveNames(st.dir, {sibling}),
                               !.ops = repairing \cup (IF sibling \in Names(st.dir)
                                                     THEN {Op("remove", sibling)} ELSE {}),
                               !.probed = seen]
               [] label = "fix_timeout" ->
                    [st EXCEPT !.dir = WriteFile(st.dir, FixedFile(n)),
                               !.ops = repairing \cup {Op("write", sibling)},
                               !.probed = seen]
               [] OTHER -> [st EXCEPT !.probed = seen]

\* _post_process_downloaded_files, lines 1228-1229: the loop over the paths
\* names, from each state of the set S and over every outcome of the check
RECURSIVE VerifyLoop(_, _)
VerifyLoop(S, names) ==
    IF names = {} THEN S
    ELSE LET n == CHOOSE m \in names : TRUE
         IN  VerifyLoop({VerifyOne(st, n, l) : st \in S, l \in VerifyOutcomes}, names \ {n})

\* the video-only files that have an audio-only file of the same base
PairedVideos(dir) == {v \in video_files(dir) : v.stem \in PairBases(dir)}

\* the choices of "the first audio-only file with this base" the scan order
\* of the directory allows
AudioPicks(dir) ==
    {pick \in [PairBases(dir) -> audio_files(dir)] : \A b \in PairBases(dir) : pick[b].stem = b}

\* the results [dir, ops, merged, probed] one pass of _post_process_downloaded_files
\* over dir can have: the merge loop in any scan order, then the check of the
\* complete mp4 files of the scan and of the merged files
_post_process_downloaded_files(dir) ==
    LET start == [dir |-> dir, ops |-> {}, merged |-> {}, probed |-> {}]
        afterMerge == UNION {MergeLoop({start}, vorder, pick) :
                                vorder \in Perms(PairedVideos(dir)), pick \in AudioPicks(dir)}
    IN  UNION {VerifyLoop({m}, {Name(f) : f \in mp4_files(dir)} \cup m.merged) :
                  m \in afterMerge}

\* the directories one pass can leave
PostProcessed(dir) == {p.dir : p \in _post_process_downloaded_files(dir)}

(* ---- download_video -------------------------------------------------- *)
\* the title the resolver reports for the page, and the title of the page itself
ResolverTitle == "T"
PageTitle == "P"

\* the download directory when the task starts: empty; holding an earlier
\* download of the same title; holding the video-only and audio-only files an
\* earlier task left unmerged
InitDirs ==
    { {},
      {File(ResolverTitle, "", "mp4", 1)},
      {File(PageTitle, "f137", "mp4", 1), File(PageTitle, "f140", "m4a", 1)} }

NoSnap == [wrote |-> {}, other |-> {}]

InitVD ==
    /\ vpc \in {"worker", "validate"}
    /\ vurl \in VDUrls
    /\ vdir0 \in InitDirs
    /\ vdir = vdir0
    /\ vhandler = "none"
    /\ vinfo = NoInfo
    /\ vnet = 0
    /\ vret = "unset"
    /\ vexc = "none"
    /\ vcalls = <<>>
    /\ vstop = "none"
    /\ vsnap = NoSnap

\* download_video is not running
VDOff ==
    /\ vpc = "off"
    /\ vurl = UrlNone
    /\ vdir0 = {}
    /\ vdir = {}
    /\ vhandler = "none"
    /\ vinfo = NoInfo
    /\ vnet = 0
    /\ vret = "unset"
    /\ vexc = "none"
    /\ vcalls = <<>>
    /\ vstop = "none"
    /\ vsnap = NoSnap

\* download_video returns ret
Return(ret) ==
    /\ vpc' = "done"
    /\ vret' = ret
    /\ vexc' = "none"

\* an exception exc is raised inside the try block of download_video
Raise(exc) ==
    /\ vpc' = "done"
    /\ vret' = Catch(exc).ret
    /\ vexc' = Catch(exc).exc

\* VideoDownloaderGUI.download_worker, lines 286-290: the check of
\* is_downloading before download_video is called
download_worker ==
    /\ vpc = "worker"
    /\ vpc' = IF vstop # "none" THEN "stopped" ELSE "validate"
    /\ UNCHANGED <<vurl, vdir0, vdir, vhandler, vinfo, vnet, vret, vexc, vcalls, vstop, vsnap>>
    /\ UNCHANGED varsNotVD

\* VideoDownloaderGUI.stop_download, line 258, while the worker thread runs
stop_download ==
    /\ vpc \in {"worker", "validate", "resolver", "lookup", "extract", "fetch"}
    /\ vstop = "none"
    /\ vstop' = vpc
    /\ UNCHANGED vsnap
    /\ UNCHANGED <<vpc, vurl, vdir0, vdir, vhandler, vinfo, vnet, vret, vexc, vcalls>>
    /\ UNCHANGED varsNotVD

\* download_video, lines 137-138
Validate ==
    /\ vpc = "validate"
    /\ IF _validate_url(vurl)
       THEN /\ vpc' = "resolver"
            /\ UNCHANGED <<vret, vexc>>
       ELSE Raise("ValueError")
    /\ UNCHANGED <<vurl, vdir0, vdir, vhandler, vinfo, vnet, vcalls>>
    /\ UNCHANGED <<vstop, vsnap>>
    /\ UNCHANGED varsNotVD

\* the title of the video another task of the same download directory fetches
OtherTitle == "O"

\* what another VideoDownloader on the same download_dir (the worker of an
\* earlier start_download that stop_download left running) writes between the
\* files_before and the files_after snapshot: nothing, or one complete file
OtherWrites == {{}, {File(OtherTitle, "", "mp4", 1)}}

\* what ydl.download writes in _download_video_with_ytdlp: one complete file,
\* or a video-only and an audio-only file the resolver could not merge
ResolverFiles(kind, stem) ==
    CASE kind = "single" -> {File(stem, "", "mp4", 1)}
      [] kind = "split" -> {File(stem, "f137", "mp4", 1), File(stem, "f140", "m4a", 1)}
      [] OTHER -> {}

\* download_video, lines 140-143, with _download_video_with_ytdlp (183-253):
\* o is what the resolver does
ResolverDownload(o) ==
    /\ vpc = "resolver"
    /\ vnet' = vnet + 1
    /\ IF o \in {"init_error", "download_error"}
       THEN /\ vpc' = "lookup"
            /\ vcalls' = Append(vcalls, Call("ydl.download", "page"))
            /\ UNCHANGED <<vdir, vret, vexc, vsnap>>
       ELSE \E other \in OtherWrites :
            LET files_before == Names(vdir)
                written == ResolverWrite(vdir, ResolverFiles(o, ResolverTitle))
                after == ResolverWrite(written, other)
                new_files == Names(after) \ files_before
            IN  /\ vsnap' = [wrote |-> Names(written) \ files_before,
                             other |-> Names(after) \ Names(written)]
                /\ IF new_files # {}
                   THEN /\ vdir' \in PostProcessed(after)
                        /\ vcalls' = vcalls \o <<Call("ydl.download", "page"),
                                                  Call("_post_process_downloaded_files", "none")>>
                        /\ Return("True")
                   ELSE /\ vdir' = after
                        /\ vcalls' = Append(vcalls, Call("ydl.download", "page"))
                        /\ vpc' = "lookup"
                        /\ UNCHANGED <<vret, vexc>>
    /\ UNCHANGED <<vurl, vdir0, vhandler, vinfo>>
    /\ UNCHANGED vstop
    /\ UNCHANGED varsNotVD

\* download_video, lines 145-155
Lookup ==
    /\ vpc = "lookup"
    /\ vhandler' = HandlerLookup(vurl)
    /\ IF HandlerLookup(vurl) = "none"
       THEN Raise("UnsupportedSiteError")
       ELSE /\ vpc' = "extract"
            /\ UNCHANGED <<vret, vexc>>
    /\ UNCHANGED <<vurl, vdir0, vdir, vinfo, vnet, vcalls>>
    /\ UNCHANGED <<vstop, vsnap>>
    /\ UNCHANGED varsNotVD

Info(title, url, ext) == [title |-> title, url |-> url, ext |-> ext]

\* the handler returns a video_info
Gives(info, net) == [ret |-> "info", exc |-> "none", info |-> info, wrote |-> {}, net |-> net]
\* the handler returns None
GivesNone(net) == [ret |-> "none", exc |-> "none", info |-> NoInfo, wrote |-> {}, net |-> net]
\* the handler raises
Raises(exc, net) == [ret |-> "raise", exc |-> exc, info |-> NoInfo, wrote |-> {}, net |-> net]

\* _extract_sohu_video (828-874) and _extract_360kan_video (876-925): no video
\* id; the resolver subprocess downloads the video itself and the handler
\* returns the page URL; the browser finds a media URL; nothing is found
PrefixHandlerOutcomes(prefix, title) ==
    { GivesNone(0),
      [ret |-> "info", exc |-> "none", info |-> Info(title, "page", "absent"),
       wrote |-> {File(prefix \o "_" \o ResolverTitle, "", "mp4", 1)}, net |-> 1],
      Gives(Info(title, "media", "absent"), 2),
      GivesNone(2) }

\* _extract_baidu_video (390-437) and _extract_pinshan_video (341-388) with
\* their manual parsers: the resolver gives the media URL; the page scrape
\* gives one; the page request fails; the page holds no video
ScrapeHandlerOutcomes(flv) ==
    { Gives(Info(ResolverTitle, "media", "mp4"), 1),
      Gives(Info(PageTitle, "media", "mp4"), 2),
      Raises("NetworkError", 2),
      Raises("ParseError", 2) }
    \cup (IF flv THEN {Gives(Info(PageTitle, "media", "flv"), 2)} ELSE {})

\* what a site handler can do
HandlerOutcomes(h) ==
    CASE h = "_extract_bilibili_video" ->
            {Gives(Info(ResolverTitle, "media", "mp4"), 1), Raises("ParseError", 1)}
      [] h = "_extract_baidu_video" -> ScrapeHandlerOutcomes(TRUE)
      [] h = "_extract_pinshan_video" -> ScrapeHandlerOutcomes(TRUE)
      [] h = "_extract_sohu_video" -> PrefixHandlerOutcomes("sohu_id", "sohu_video_id")
      [] h = "_extract_360kan_video" -> PrefixHandlerOutcomes("360kan_id", "360kan_video_id")

\* download_video, lines 157-162: the handler call
Extract(out) ==
    /\ vpc = "extract"
    /\ out \in HandlerOutcomes(vhandler)
    /\ vnet' = vnet + out.net
    /\ vdir' = ResolverWrite(vdir, out.wrote)
    /\ vcalls' = Append(vcalls, Call(vhandler, "page"))
    /\ CASE out.ret = "raise" -> Raise(out.exc) /\ UNCHANGED vinfo
         [] out.ret = "none" -> Raise("ParseError") /\ UNCHANGED vinfo
         [] out.ret = "info" -> /\ vinfo' = out.info
                                /\ vpc' = "fetch"
                                /\ UNCHANGED <<vret, vexc>>
    /\ UNCHANGED <<vurl, vdir0, vhandler>>
    /\ UNCHANGED <<vstop, vsnap>>
    /\ UNCHANGED varsNotVD

\* _download_file, lines 781-791: the first of <title>.<ext>, <title>_1.<ext>,
\* <title>_2.<ext>, ... that does not exist
FreeStem(dir, title, ext) ==
    LET Cand(n) == IF n = 0 THEN title ELSE title \o "_" \o ToString(n)
        free == {n \in 0..Cardinality(dir) : Name(File(Cand(n), "", ext, 0)) \notin Names(dir)}
    IN  Cand(SeqMin(free))

\* outcomes of the direct stream: the body is written; the body is empty; the
\* request fails before the file is opened; the stream breaks after it was
StreamOutcomes == {"ok", "ok_empty", "error", "error_partial"}

\* outcomes of the resolver in _download_with_ytdlp
FallbackOutcomes == {"raise", "nothing", "single", "split"}

\* download_video, line 164, with _download_file (765-826) and
\* _download_with_ytdlp (1143-1185)
Fetch(o, fb) ==
    /\ vpc = "fetch"
    /\ LET ext == IF vinfo.ext = "absent" THEN "mp4" ELSE vinfo.ext
           stem == FreeStem(vdir, vinfo.title, ext)
           target == File(stem, "", ext, 1)
       IN  CASE o = "ok" ->
                   /\ fb = "nothing"
                   /\ vdir' = WriteFile(vdir, target)
                   /\ vnet' = vnet + 1
                   /\ vcalls' = Append(vcalls, Call("requests.get", vinfo.url))
                   /\ Return("True")
             [] o = "ok_empty" ->
                   /\ fb = "nothing"
                   /\ vdir' = WriteFile(vdir, [target EXCEPT !.size = 0])
                   /\ vnet' = vnet + 1
                   /\ vcalls' = Append(vcalls, Call("requests.get", vinfo.url))
                   /\ Return("True")
             [] o \in {"error", "error_partial"} ->
                   LET d1 == IF o = "error" THEN vdir ELSE WriteFile(vdir, target)
                       d2 == ResolverWrite(d1, ResolverFiles(fb, stem))
                       downloaded_files == {f \in d2 : f.stem = stem}
                       tried == vcalls \o <<Call("requests.get", vinfo.url),
                                            Call("ydl.download", vinfo.url)>>
                   IN  /\ vnet' = vnet + 2
                       /\ IF fb = "raise"
                          THEN vdir' = d1 /\ vcalls' = tried /\ Return("False")
                          ELSE IF downloaded_files # {}
                          THEN /\ vdir' \in PostProcessed(d2)
                               /\ vcalls' = Append(tried, Call("_post_process_downloaded_files",
                                                                "none"))
                               /\ Return("True")
                          ELSE vdir' = d2 /\ vcalls' = tried /\ Return("False")
    /\ UNCHANGED <<vurl, vdir0, vhandler, vinfo>>
    /\ UNCHANGED <<vstop, vsnap>>
    /\ UNCHANGED varsNotVD

NextVD ==
    \/ download_worker
    \/ stop_download
    \/ Validate
    \/ \E o \in {"init_error", "download_error", "nothing", "single", "split"} :
          ResolverDownload(o)
    \/ Lookup
    \/ \E out \in UNION {HandlerOutcomes(vd_supported_sites[i].handler) :
                            i \in 1..Len(vd_supported_sites)} : Extract(out)
    \/ \E o \in StreamOutcomes, fb \in FallbackOutcomes : Fetch(o, fb)

(***************************************************************************)
(* Part IV.  Classification of one URL by the three classifiers of the     *)
(* repository: OptimizedVideoDownloader.detect_site, DownloaderConfig.     *)
(* detect_site and the handler lookup of VideoDownloader.download_video.   *)
(***************************************************************************)
\* DownloaderConfig.SITE_CONFIGS, in insertion order
SITE_CONFIGS ==
    << [site |-> "bilibili", domain |-> "bilibili.com"],
       [site |-> "sohu", domain |-> "sohu.com"],
       [site |-> "360kan", domain |-> "360kan.com"],
       [site |-> "youtube", domain |-> "youtube.com"] >>

\* DownloaderConfig.detect_site
config_detect_site(url) ==
    LET hits == {i \in 1..Len(SITE_CONFIGS) : InUrl(SITE_CONFIGS[i].domain, url)}
    IN  IF hits = {} THEN "unknown" ELSE SITE_CONFIGS[SeqMin(hits)].site

\* the domain fragments the three tables know
Fragments ==
    {supported_sites[i].domain : i \in 1..Len(supported_sites)}
        \cup {SITE_CONFIGS[i].domain : i \in 1..Len(SITE_CONFIGS)}
        \cup {vd_supported_sites[i].domain : i \in 1..Len(vd_supported_sites)}

\* URL strings with a scheme and a host: any fragments in the host and any in
\* the rest of the string
ClsUrls ==
    {Url(TRUE, TRUE, h, r) : h \in SUBSET Fragments, r \in SUBSET Fragments}

\* MainDownloader.run_interactive_mode, line 146: the input is taken for a
\* video URL
IsVideoUrl(url) ==
    \E domain \in {"bilibili.com", "sohu.com", "360kan.com", "youtube.com"} : InUrl(domain, url)

Classifiers == {"detect_site", "config.detect_site", "download_video"}

InitCls ==
    /\ cu \in ClsUrls
    /\ cls = [c \in Classifiers |-> "unset"]

\* no URL is being classified
ClsOff ==
    /\ cu = UrlNone
    /\ cls = [c \in Classifiers |-> "unset"]

\* OptimizedVideoDownloader.detect_site(cu)
ApplyDetectSite ==
    /\ cls' = [cls EXCEPT !["detect_site"] = detect_site(cu)]
    /\ UNCHANGED cu
    /\ UNCHANGED varsNotCls

\* DownloaderConfig.detect_site(cu)
ApplyConfigDetectSite ==
    /\ cls' = [cls EXCEPT !["config.detect_site"] = config_detect_site(cu)]
    /\ UNCHANGED cu
    /\ UNCHANGED varsNotCls

\* the handler lookup of download_video on cu
ApplyHandlerLookup ==
    /\ cls' = [cls EXCEPT !["download_video"] = HandlerLookup(cu)]
    /\ UNCHANGED cu
    /\ UNCHANGED varsNotCls

NextCls ==
    \/ ApplyDetectSite
    \/ ApplyConfigDetectSite
    \/ ApplyHandlerLookup

(***************************************************************************)
(* Part V.  Reconciliation of a download directory: passes of              *)
(* _post_process_downloaded_files and single runs of _verify_and_fix_audio.*)
(***************************************************************************)
\* _verify_and_fix_audio: bit_rate_int < 64000
MinBitRate == 64000
\* _verify_and_fix_audio: sample_rate_int < 22050
MinSampleRate == 22050
\* a field of the probe's output on which int() raises ValueError ("N/A")
Unparsable == -1

\* bit_rate as read from the probe; a missing field is read as '0'
BitRates == {Unparsable, 0, MinBitRate - 1, MinBitRate}
SampleRates == {Unparsable, MinSampleRate - 1, MinSampleRate}

\* what the probe gives: ok is FALSE for a non-zero exit, empty output or
\* fewer than three fields
Probes ==
    {[ok |-> FALSE, bit_rate |-> 0, sample_rate |-> 0]}
        \cup {[ok |-> TRUE, bit_rate |-> b, sample_rate |-> r] :
                 b \in BitRates, r \in SampleRates}

\* a check that also repairs a file exactly at the thresholds
needs_fix_inclusive(probe) ==
    \/ probe.bit_rate = Unparsable
    \/ probe.bit_rate <= MinBitRate
    \/ probe.sample_rate # Unparsable /\ probe.sample_rate <= MinSampleRate

\* _verify_and_fix_audio, lines 1340-1359
needs_fix(probe) ==
    \/ probe.bit_rate = Unparsable
    \/ probe.bit_rate < MinBitRate
    \/ probe.sample_rate # Unparsable /\ probe.sample_rate < MinSampleRate

\* outcomes of the transcoder in _fix_audio_stream
FixOutcomes == {"ok", "nonzero", "timeout"}

\* what one _verify_and_fix_audio comes to, given the probe and the repair
VerifyOutcomeOf(probe, fix) ==
    IF ~probe.ok THEN "no_audio"
    ELSE IF ~needs_fix(probe) THEN "healthy"
    ELSE CASE fix = "ok" -> "fixed"
           [] fix = "nonzero" -> "fix_failed"
           [] fix = "timeout" -> "fix_timeout"

\* _verify_and_fix_audio(n) on the directory dir
_verify_and_fix_audio(dir, n, probe, fix) ==
    VerifyOne([dir |-> dir, ops |-> {}, merged |-> {}, probed |-> {}], n,
              VerifyOutcomeOf(probe, fix))

\* the files a directory can hold before the first step: two video-only
\* variants and an audio-only variant of one title (any of them alone is a
\* lone variant), a complete mp4 file, and a complete file in another
\* container
RecFiles ==
    {File(ResolverTitle, "f137", "mp4", 1), File(ResolverTitle, "f399", "webm", 1),
     File(ResolverTitle, "f140", "m4a", 1), File(ResolverTitle, "", "mp4", 1),
     File(PageTitle, "", "webm", 1)}

NoStep == [kind |-> "none"]

InitRec ==
    /\ rdir \in SUBSET RecFiles
    /\ rprev = rdir
    /\ rops = {}
    /\ rstep = NoStep
    /\ rsteps = 0

\* no directory is being reconciled
RecOff ==
    /\ rdir = {}
    /\ rprev = {}
    /\ rops = {}
    /\ rstep = NoStep
    /\ rsteps = 0

\* one call of _post_process_downloaded_files
ReconcilePass ==
    /\ rsteps < MaxPasses
    /\ \E p \in _post_process_downloaded_files(rdir) :
          /\ rdir' = p.dir
          /\ rops' = p.ops
          /\ rstep' = [kind |-> "pass", merged |-> p.merged, probed |-> p.probed]
    /\ rprev' = rdir
    /\ rsteps' = rsteps + 1
    /\ UNCHANGED varsNotRec

\* one call of _verify_and_fix_audio on a complete mp4 file of the directory
VerifyFile(probe, fix) ==
    /\ rsteps < MaxPasses
    /\ \E f \in mp4_files(rdir) :
          LET st == _verify_and_fix_audio(rdir, Name(f), probe, fix)
          IN  /\ rdir' = st.dir
              /\ rops' = st.ops
              /\ rstep' = [kind |-> "verify", file |-> f, probe |-> probe]
    /\ rprev' = rdir
    /\ rsteps' = rsteps + 1
    /\ UNCHANGED varsNotRec

NextRec ==
    \/ ReconcilePass
    \/ \E probe \in Probes, fix \in FixOutcomes : VerifyFile(probe, fix)

(***************************************************************************)
(* Part VI.  One run of a browser strategy: _selenium_extract_sohu and     *)
(* _selenium_extract_360kan, statement by statement of their try block.    *)
(***************************************************************************)
SelFunctions == {"_selenium_extract_sohu", "_selenium_extract_360kan"}

InitSel ==
    /\ sfn \in SelFunctions
    /\ spc = "Chrome"
    /\ sdriver = FALSE
    /\ sleft = 0
    /\ slog = <<>>
    /\ sret = "unset"

\* no browser strategy runs
SelOff ==
    /\ sfn = "off"
    /\ spc = "done"
    /\ sdriver = FALSE
    /\ sleft = 0
    /\ slog = <<>>
    /\ sret = "unset"

\* a function that releases the driver only when its try block returns
LeaveNoFinally(how) == IF how = "except" THEN "done" ELSE "finally"

\* where control goes when the try block is left by a return or through the
\* outer except clause: the finally clause runs in both cases
Leave(how) == "finally"

\* the statements inside the inner try of the iframe loop
InIframeTry == {"switch_to.frame", "find_videos", "page_source", "default_content"}

\* an exception raised by the driver call at spc: the inner except of the
\* iframe loop calls switch_to.default_content(), anything else reaches the
\* outer except, which returns None
Raised ==
    IF sfn = "_selenium_extract_360kan" /\ spc \in InIframeTry
    THEN /\ spc' = "default_content_except"
         /\ UNCHANGED sret
    ELSE /\ spc' = Leave("except")
         /\ sret' = "none"

\* the function returns ret from inside the try block
SelReturn(ret) ==
    /\ spc' = Leave("return")
    /\ sret' = ret

\* the next turn of `for iframe in iframes`, with n iframes left
NextIframe(n) ==
    IF n > 0
    THEN /\ spc' = "switch_to.frame"
         /\ sleft' = n - 1
         /\ UNCHANGED sret
    ELSE /\ sleft' = 0
         /\ SelReturn("none")

\* driver = webdriver.Chrome(options=chrome_options)
CreateDriver(raises) ==
    /\ spc = "Chrome"
    /\ IF raises
       THEN Raised /\ UNCHANGED <<sdriver, slog>>
       ELSE /\ sdriver' = TRUE
            /\ slog' = Append(slog, "Chrome")
            /\ spc' = "execute_script"
            /\ UNCHANGED sret
    /\ UNCHANGED <<sfn, sleft>>
    /\ UNCHANGED varsNotSel

\* driver.execute_script(...) and driver.get(url)
DriverCall(raises) ==
    /\ spc \in {"execute_script", "get"}
    /\ slog' = Append(slog, spc)
    /\ IF raises THEN Raised
       ELSE /\ spc' = (IF spc = "execute_script" THEN "get"
                       ELSE IF sfn = "_selenium_extract_sohu" THEN "find_videos"
                       ELSE "find_iframes")
            /\ UNCHANGED sret
    /\ UNCHANGED <<sfn, sdriver, sleft>>
    /\ UNCHANGED varsNotSel

\* driver.find_elements(By.TAG_NAME, 'iframe'): n of them have le.com in src
FindIframes(n, raises) ==
    /\ spc = "find_iframes"
    /\ slog' = Append(slog, spc)
    /\ IF raises THEN Raised /\ UNCHANGED sleft ELSE NextIframe(n)
    /\ UNCHANGED <<sfn, sdriver>>
    /\ UNCHANGED varsNotSel

\* driver.switch_to.frame(iframe)
SwitchToFrame(raises) ==
    /\ spc = "switch_to.frame"
    /\ slog' = Append(slog, spc)
    /\ IF raises THEN Raised
       ELSE spc' = "find_videos" /\ UNCHANGED sret
    /\ UNCHANGED <<sfn, sdriver, sleft>>
    /\ UNCHANGED varsNotSel

\* driver.find_elements(By.TAG_NAME, 'video') and the loop over the elements:
\* one has an http src, none has, or a call raises
FindVideos(o) ==
    /\ spc = "find_videos"
    /\ slog' = Append(slog, spc)
    /\ CASE o = "found" -> SelReturn("src")
         [] o = "nothing" -> spc' = "page_source" /\ UNCHANGED sret
         [] o = "raise" -> Raised
    /\ UNCHANGED <<sfn, sdriver, sleft>>
    /\ UNCHANGED varsNotSel

\* driver.page_source and the search for an .mp4 URL in it
PageSource(o) ==
    /\ spc = "page_source"
    /\ slog' = Append(slog, spc)
    /\ CASE o = "found" -> SelReturn("src")
         [] o = "nothing" ->
                IF sfn = "_selenium_extract_sohu" THEN SelReturn("none")
                ELSE spc' = "default_content" /\ UNCHANGED sret
         [] o = "raise" -> Raised
    /\ UNCHANGED <<sfn, sdriver, sleft>>
    /\ UNCHANGED varsNotSel

\* driver.switch_to.default_content(), at the end of the inner try or in the
\* inner except
DefaultContent(raises) ==
    /\ spc \in {"default_content", "default_content_except"}
    /\ slog' = Append(slog, "default_content")
    /\ IF raises THEN Raised /\ UNCHANGED sleft ELSE NextIframe(sleft)
    /\ UNCHANGED <<sfn, sdriver>>
    /\ UNCHANGED varsNotSel

\* finally: if driver: driver.quit()
Finally ==
    /\ spc = "finally"
    /\ slog' = IF sdriver THEN Append(slog, "quit") ELSE slog
    /\ spc' = "done"
    /\ UNCHANGED <<sfn, sdriver, sleft, sret>>
    /\ UNCHANGED varsNotSel

NextSel ==
    \/ \E raises \in BOOLEAN : CreateDriver(raises)
    \/ \E raises \in BOOLEAN : DriverCall(raises)
    \/ \E n \in 0..MaxIframes, raises \in BOOLEAN : FindIframes(n, raises)
    \/ \E raises \in BOOLEAN : SwitchToFrame(raises)
    \/ \E o \in {"found", "nothing", "raise"} : FindVideos(o)
    \/ \E o \in {"found", "nothing", "raise"} : PageSource(o)
    \/ \E raises \in BOOLEAN : DefaultContent(raises)
    \/ Finally

(***************************************************************************)
(* Part VII.  The window of VideoDownloaderGUI: the Tk main thread         *)
(* (start_download, stop_download, process_queue) and the worker threads   *)
(* start_download starts (src/src/video_downloader_gui.py).  A worker is   *)
(* numbered by the order of its start; self.download_thread is the last    *)
(* one started.  The puts a worker makes in a row, the put of its finally  *)
(* clause included, are one step; progress_var and the log widget are left *)
(* out.                                                                    *)
(***************************************************************************)
Workers == 1..MaxWorkers

\* a message on self.message_queue, with the worker that put it
Msg(type, data, w) == [type |-> type, data |-> data, w |-> w]

\* the workers started so far; the last of them is self.download_thread
StartedWorkers == {w \in Workers : wpc[w] # "new"}

\* VideoDownloaderGUI.__init__, lines 41-48, and the buttons of lines 99-106
InitGui ==
    /\ gmain = "idle"
    /\ is_downloading = FALSE
    /\ download_btn = "normal"
    /\ stop_btn = "disabled"
    /\ status_var = "ready"
    /\ message_queue = <<>>
    /\ wpc = [w \in Workers |-> "new"]
    /\ wput = [w \in Workers |-> <<>>]
    /\ wdone = [w \in Workers |-> 0]

\* no window is open
GuiOff ==
    /\ gmain = "off"
    /\ is_downloading = FALSE
    /\ download_btn = "normal"
    /\ stop_btn = "disabled"
    /\ status_var = "ready"
    /\ message_queue = <<>>
    /\ wpc = [w \in Workers |-> "new"]
    /\ wput = [w \in Workers |-> <<>>]
    /\ wdone = [w \in Workers |-> 0]

\* reset_ui_state, lines 268-273
reset_ui_state ==
    /\ download_btn' = "normal"
    /\ stop_btn' = "disabled"
    /\ is_downloading' = FALSE
    /\ status_var' = "ready"

\* start_download, lines 221-254, on a click of the download button: valid is
\* FALSE when the URL field is empty, has no http(s):// prefix or the directory
\* cannot be created (the early returns of lines 224-239)
start_download(valid) ==
    /\ gmain = "idle"
    /\ download_btn = "normal"
    /\ IF valid
       THEN LET w == Cardinality(StartedWorkers) + 1
            IN  /\ w \in Workers
                /\ download_btn' = "disabled"
                /\ stop_btn' = "normal"
                /\ is_downloading' = TRUE
                /\ status_var' = "preparing"
                /\ wpc' = [wpc EXCEPT ![w] = "init"]
       ELSE UNCHANGED <<download_btn, stop_btn, is_downloading, status_var, wpc>>
    /\ UNCHANGED <<gmain, message_queue, wput, wdone>>
    /\ UNCHANGED varsNotGui

\* stop_download, lines 256-264, on a click of the stop button, up to the join
stop_download_request ==
    /\ gmain = "idle"
    /\ stop_btn = "normal"
    /\ is_downloading' = FALSE
    /\ status_var' = "stopping"
    /\ gmain' = "joining"
    /\ UNCHANGED <<download_btn, stop_btn, message_queue, wpc, wput, wdone>>
    /\ UNCHANGED varsNotGui

\* stop_download, lines 263-266: join(timeout=2) returns when the thread has
\* ended or when two seconds have passed, whatever the thread does then
stop_download_join ==
    /\ gmain = "joining"
    /\ reset_ui_state
    /\ gmain' = "idle"
    /\ UNCHANGED <<message_queue, wpc, wput, wdone>>
    /\ UNCHANGED varsNotGui

\* the messages (type, data) of a worker w as queue entries
Puts(w, ms) == [i \in 1..Len(ms) |-> Msg(ms[i][1], ms[i][2], w)]
Types(ms) == [i \in 1..Len(ms) |-> ms[i][1]]

\* download_worker, lines 302-307: the messages of the except clause
ExceptMessages ==
    << <<"status", "error">>, <<"progress", "0">>, <<"log", "error">>, <<"error", "error">> >>

\* a worker whose return of line 287 leaves without the finally clause
FinallyMessagesNotOnReturn(path) ==
    IF path = "stopped" THEN <<>> ELSE << <<"reset", "None">> >>

\* download_worker, lines 309-310: the whole body is inside try ... finally, so
\* the return of line 287, the end of the try and the except clause all go on
\* to the put of the finally clause
FinallyMessages(path) == << <<"reset", "None">> >>

\* the worker puts the messages ms and leaves download_worker on the path given
LeaveWorker(w, ms, path) ==
    LET all == ms \o FinallyMessages(path)
    IN  /\ message_queue' = message_queue \o Puts(w, all)
        /\ wput' = [wput EXCEPT ![w] = @ \o Types(all)]
        /\ wpc' = [wpc EXCEPT ![w] = "ended"]

\* download_worker, lines 278-283: the VideoDownloader is created (or its
\* constructor raises) and the first two messages are put
WorkerInit(w, raises) ==
    /\ wpc[w] = "init"
    /\ IF raises
       THEN LeaveWorker(w, ExceptMessages, "except")
       ELSE /\ message_queue' = message_queue \o
                   Puts(w, << <<"status", "parsing">>, <<"progress", "10">> >>)
            /\ wput' = [wput EXCEPT ![w] = @ \o <<"status", "progress">>]
            /\ wpc' = [wpc EXCEPT ![w] = "check"]
    /\ UNCHANGED <<gmain, is_downloading, download_btn, stop_btn, status_var, wdone>>
    /\ UNCHANGED varsNotGui

\* download_worker, lines 286-287: the check of is_downloading
WorkerCheck(w) ==
    /\ wpc[w] = "check"
    /\ IF is_downloading
       THEN /\ wpc' = [wpc EXCEPT ![w] = "download"]
            /\ UNCHANGED <<message_queue, wput>>
       ELSE LeaveWorker(w, <<>>, "stopped")
    /\ UNCHANGED <<gmain, is_downloading, download_btn, stop_btn, status_var, wdone>>
    /\ UNCHANGED varsNotGui

\* download_worker, lines 290-310: download_video returns True or False, or an
\* exception leaves it, and the worker puts the messages of that outcome
WorkerDownload(w, r) ==
    /\ wpc[w] = "download"
    /\ CASE r = "True" ->
              LeaveWorker(w, << <<"status", "done">>, <<"progress", "100">>,
                                <<"log", "done">>, <<"success", "saved">> >>, "success")
         [] r = "False" ->
              LeaveWorker(w, << <<"status", "failed">>, <<"progress", "0">>,
                                <<"log", "failed">>, <<"error", "failed">> >>, "failure")
         [] r = "raise" -> LeaveWorker(w, ExceptMessages, "except")
    /\ UNCHANGED <<gmain, is_downloading, download_btn, stop_btn, status_var, wdone>>
    /\ UNCHANGED varsNotGui

\* process_queue, lines 314-328: one turn of the loop, get_nowait returned the
\* head of the queue; the message boxes of success and error are closed by the user
process_queue_get ==
    /\ gmain \in {"idle", "draining"}
    /\ message_queue # <<>>
    /\ LET m == Head(message_queue)
       IN  /\ message_queue' = Tail(message_queue)
           /\ wdone' = [wdone EXCEPT ![m.w] = @ + 1]
           /\ CASE m.type = "status" ->
                     /\ status_var' = m.data
                     /\ UNCHANGED <<is_downloading, download_btn, stop_btn>>
                [] m.type = "reset" -> reset_ui_state
                [] OTHER -> UNCHANGED <<is_downloading, download_btn, stop_btn, status_var>>
    /\ gmain' = "draining"
    /\ UNCHANGED <<wpc, wput>>
    /\ UNCHANGED varsNotGui

\* process_queue, lines 330-335: get_nowait raised queue.Empty, the call ends
\* and is scheduled again
process_queue_empty ==
    /\ gmain = "draining"
    /\ message_queue = <<>>
    /\ gmain' = "idle"
    /\ UNCHANGED <<is_downloading, download_btn, stop_btn, status_var, message_queue,
                   wpc, wput, wdone>>
    /\ UNCHANGED varsNotGui

NextGui ==
    \/ \E valid \in BOOLEAN : start_download(valid)
    \/ stop_download_request
    \/ stop_download_join
    \/ \E w \in Workers, raises \in BOOLEAN : WorkerInit(w, raises)
    \/ \E w \in Workers : WorkerCheck(w)
    \/ \E w \in Workers, r \in {"True", "False", "raise"} : WorkerDownload(w, r)
    \/ process_queue_get
    \/ process_queue_empty

\* the step of worker w, whatever its outcome
WorkerStep(w) ==
    \/ \E raises \in BOOLEAN : WorkerInit(w, raises)
    \/ WorkerCheck(w)
    \/ \E r \in {"True", "False", "raise"} : WorkerDownload(w, r)

\* the step the main thread takes without a click of the user
MainStep == process_queue_get \/ process_queue_empty \/ stop_download_join

\* A started thread is scheduled until it ends and download_video returns; the
\* main loop runs process_queue every 100 ms (line 335) once the message box it
\* shows is closed; join(timeout=2) returns.
GuiFairness ==
    /\ \A w \in Workers : WF_varsGui(WorkerStep(w))
    /\ WF_varsGui(MainStep)

(***************************************************************************)
(* Part VIII.  The raw page scrape: _manual_extract_pinshan and            *)
(* _is_valid_video_url (src/src/video_downloader.py).  A string is a       *)
(* sequence of tokens; a token is a piece of text of a known length that   *)
(* holds, or does not hold, one of the substrings the program looks for,   *)
(* and no such substring spans two tokens.                                 *)
(***************************************************************************)
\* the page URL up to its last '/': what urljoin puts before a relative reference
PageBase == "https://www.pinshan.com/v/"

Tokens == {"http://", "HTTP://", ".mp4", ".TS", "watch", "a", "abcdefghijklm", PageBase}

\* len(token)
TokenLen(t) ==
    CASE t \in {"http://", "HTTP://"} -> 7
      [] t = ".mp4" -> 4
      [] t = ".TS" -> 3
      [] t = "watch" -> 5
      [] t = "a" -> 1
      [] t = "abcdefghijklm" -> 13
      [] t = PageBase -> 26

\* token.lower()
TokenLower(t) ==
    CASE t = "HTTP://" -> "http://"
      [] t = ".TS" -> ".ts"
      [] OTHER -> t

\* the extensions and keywords of _is_valid_video_url that occur in a token
TokenHolds(t) ==
    CASE t = ".mp4" -> {".mp4", "mp4"}
      [] t = ".ts" -> {".ts"}
      [] t = "watch" -> {"watch"}
      [] OTHER -> {}

RECURSIVE StrLen(_)
\* len(s)
StrLen(s) == IF s = <<>> THEN 0 ELSE TokenLen(Head(s)) + StrLen(Tail(s))

\* s.lower()
Lower(s) == [i \in 1..Len(s) |-> TokenLower(s[i])]

\* any(x in s for x in subs)
ContainsAny(s, subs) == \E i \in 1..Len(s) : TokenHolds(s[i]) \cap subs # {}

\* s.startswith('http')
StartsWithHttp(s) == s # <<>> /\ s[1] \in {"http://", PageBase}

video_extensions == {".mp4", ".avi", ".mov", ".wmv", ".flv", ".webm", ".m4v", ".m3u8", ".ts"}
video_keywords == {"video", "mp4", "stream", "media", "play", "watch", "v="}

\* a length test that turns away a URL of exactly ten characters
TooShortInclusive(s) == StrLen(s) <= 10

\* _is_valid_video_url, line 725: `not url or len(url) < 10`
TooShort(s) == s = <<>> \/ StrLen(s) < 10

\* _is_valid_video_url, lines 725-746
_is_valid_video_url(s) ==
    IF TooShort(s) THEN FALSE
    ELSE IF ContainsAny(Lower(s), video_extensions) THEN TRUE
    ELSE IF ContainsAny(Lower(s), video_keywords) THEN TRUE
    ELSE IF StartsWithHttp(s) /\ StrLen(s) > 20 THEN TRUE
    ELSE FALSE

\* the strings _is_valid_video_url is applied to
Strings == SeqsUpTo(Tokens, MaxTokens)

\* the places of a page the scrape collects from, in the order it visits them
Groups == <<"video", "source", "script", "text">>

\* the src attributes and quoted strings a page holds: none, a short relative
\* path, a relative path to a media file, and absolute URLs that are too short,
\* are plain and of twenty characters, or name a media file
PageStrings ==
    { <<>>, <<"a">>, <<"watch", ".mp4">>, <<"http://", "a">>,
      <<"http://", "abcdefghijklm">>, <<"http://", "a", ".mp4">> }

\* a page: its elements in document order, each the string s found in a place
Pages == SeqsUpTo([group : {Groups[i] : i \in 1..Len(Groups)}, s : PageStrings], MaxCands)

\* urljoin(url, src) for a src that does not start with 'http'
urljoin(s) == <<PageBase>> \o s

\* lines 475-529, for one element of the page: the entry it adds to video_urls,
\* <<>> when it adds none
Collected(e) ==
    LET absolute == IF StartsWithHttp(e.s) THEN e.s ELSE urljoin(e.s)
        media == ContainsAny(Lower(e.s), {".mp4", ".flv", ".m3u8"})
    IN  CASE e.group \in {"video", "source"} -> IF e.s # <<>> THEN <<absolute>> ELSE <<>>
          [] e.group = "script" -> IF media THEN <<absolute>> ELSE <<>>
          [] e.group = "text" ->
                IF /\ e.s # <<>>
                   /\ e.s[1] = "http://"
                   /\ \E i \in 3..Len(e.s) : TokenHolds(e.s[i]) \cap {".mp4", ".flv", ".m3u8"} # {}
                THEN <<e.s>> ELSE <<>>

RECURSIVE CollectGroup(_, _)
\* one of the four loops over the page: the entries of the elements of group g
CollectGroup(page, g) ==
    IF page = <<>> THEN <<>>
    ELSE (IF Head(page).group = g
          THEN [i \in 1..Len(Collected(Head(page))) |->
                    [group |-> g, url |-> Collected(Head(page))[i]]]
          ELSE <<>>) \o CollectGroup(Tail(page), g)

\* video_urls after the four loops, lines 473-529
video_urls(page) ==
    CollectGroup(page, "video") \o CollectGroup(page, "source")
        \o CollectGroup(page, "script") \o CollectGroup(page, "text")

NoScrape == [ret |-> "unset"]

\* lines 531-554: the first entry of video_urls that passes the check, or ParseError
FirstValid(cands) ==
    LET ok == {i \in 1..Len(cands) : _is_valid_video_url(cands[i].url)}
    IN  IF ok = {} THEN [ret |-> "ParseError"]
        ELSE [ret |-> "info", url |-> cands[SeqMin(ok)].url]

InitScrape ==
    /\ \/ ppc = "check" /\ pu \in Strings /\ ppage = <<>>
       \/ ppc = "collect" /\ pu = <<>> /\ ppage \in Pages
    /\ pvalid = "unset"
    /\ pcands = <<>>
    /\ pres = NoScrape

\* no scrape runs
ScrapeOff ==
    /\ ppc = "off"
    /\ pu = <<>>
    /\ ppage = <<>>
    /\ pvalid = "unset"
    /\ pcands = <<>>
    /\ pres = NoScrape

\* a call of _is_valid_video_url on pu
ApplyIsValid ==
    /\ ppc = "check"
    /\ pvalid' = IF _is_valid_video_url(pu) THEN "True" ELSE "False"
    /\ ppc' = "done"
    /\ UNCHANGED <<pu, ppage, pcands, pres>>
    /\ UNCHANGED varsNotScrape

\* _manual_extract_pinshan, lines 473-529: the four collecting loops
Collect ==
    /\ ppc = "collect"
    /\ pcands' = video_urls(ppage)
    /\ ppc' = "pick"
    /\ UNCHANGED <<pu, ppage, pvalid, pres>>
    /\ UNCHANGED varsNotScrape

\* _manual_extract_pinshan, lines 531-554
Pick ==
    /\ ppc = "pick"
    /\ pres' = FirstValid(pcands)
    /\ ppc' = "done"
    /\ UNCHANGED <<pu, ppage, pvalid, pcands>>
    /\ UNCHANGED varsNotScrape

NextScrape ==
    \/ ApplyIsValid
    \/ Collect
    \/ Pick

(***************************************************************************)
(* Specifications.                                                         *)
(***************************************************************************)
vars == <<selfResults, tasks, mainPc, urls, results, started, joined,
          tpc, tres, tfmt, touts, report,
          vpc, vurl, vdir0, vdir, vhandler, vinfo, vnet, vret, vexc, vcalls, vstop,
          vsnap, cu, cls, rdir, rprev, rops, rstep, rsteps,
          sfn, spc, sdriver, sleft, slog, sret,
          gmain, is_downloading, download_btn, stop_btn, status_var, message_queue,
          wpc, wput, wdone, ppc, pu, pvalid, ppage, pcands, pres>>

\* batches on one OptimizedVideoDownloader
InitSpec == InitOpt /\ VDOff /\ ClsOff /\ RecOff /\ SelOff /\ GuiOff /\ ScrapeOff

Spec == InitSpec /\ [][NextOpt]_vars

\* download_single_video on one URL per call, under the scheduling of its worker
SpecTask == InitSpec /\ [][NextTask]_vars /\ TaskFairness

\* one VideoDownloader.download_video task
InitSpecVD == InitVD /\ InitOpt /\ ClsOff /\ RecOff /\ SelOff /\ GuiOff /\ ScrapeOff

SpecVD == InitSpecVD /\ [][NextVD]_vars

\* one URL under the three classifiers
InitSpecCls == InitCls /\ InitOpt /\ VDOff /\ RecOff /\ SelOff /\ GuiOff /\ ScrapeOff

SpecCls == InitSpecCls /\ [][NextCls]_vars

\* reconciliation steps on one directory
InitSpecRec == InitRec /\ InitOpt /\ VDOff /\ ClsOff /\ SelOff /\ GuiOff /\ ScrapeOff

SpecRec == InitSpecRec /\ [][NextRec]_vars

\* one run of a browser strategy
InitSpecSel == InitSel /\ InitOpt /\ VDOff /\ ClsOff /\ RecOff /\ GuiOff /\ ScrapeOff

SpecSel == InitSpecSel /\ [][NextSel]_vars

\* one window, its main thread and its workers, under their scheduling
InitSpecGui == InitGui /\ InitOpt /\ VDOff /\ ClsOff /\ RecOff /\ SelOff /\ ScrapeOff
SpecGui == InitSpecGui /\ [][NextGui]_vars /\ GuiFairness

\* _is_valid_video_url on one string, or _manual_extract_pinshan on one page
InitSpecScrape == InitScrape /\ InitOpt /\ VDOff /\ ClsOff /\ RecOff /\ SelOff /\ GuiOff
SpecScrape == InitSpecScrape /\ [][NextScrape]_vars

(***************************************************************************)
(* Properties of the batch orchestrator, checked under Spec.               *)
(***************************************************************************)
\* download_single_video has returned in thread t
Returned(t) == tpc[t] \in {"append", "finished"}

\* the thread has ended: its target returned, or an exception ended it
Ended(t) == tpc[t] \in {"finished", "died"}

\* the call has returned its report
CallReturned == mainPc = "idle" /\ report # NoReport

\* a string URL whose host contains no configured domain fragment
HostUnsupported(url) ==
    url.isStr /\ \A i \in 1..Len(supported_sites) : ~InHost(supported_sites[i].domain, url)

EntriesOf(t) == {i \in 1..Len(results) : results[i].id = t}

\* C1: a task whose URL's host contains none of the configured domain
\* fragments never invokes the resolver and ends failed.
C1_UnknownHostNoResolver ==
    \A t \in Threads :
        (tpc[t] # "new" /\ HostUnsupported(urls[t])) =>
            /\ tfmt[t] = 0
            /\ tpc[t] # "download"
            /\ Returned(t) => tres[t].status = "failed"

\* C3: a result that download_single_video returns with status 'success'
\* records at least one output file.
C3_SuccessRecordsFiles ==
    \A t \in Threads :
        (Returned(t) /\ tres[t].status = "success") => Len(tres[t].files) >= 1

\* C4: the report a call returns describes that call only: total_videos is
\* len(urls) and its results are those of the tasks the call launched.  Stated
\* for the calls in which no worker thread was ended by an exception.
C4_ReportOfThisCall ==
    (CallReturned /\ \A t \in 1..Len(urls) : tpc[t] = "finished") =>
        /\ report.total_videos = Len(urls)
        /\ report.results = [i \in 1..Len(results) |-> to_dict(results[i])]

\* C5: in every report success_count + failed_count = total_videos and
\* success_rate = success_count / total_videos * 100; the rate of an empty
\* result set is 0 and no division by zero takes place.
C5_ReportArithmetic ==
    report # NoReport =>
        /\ report.success_count + report.failed_count = report.total_videos
        /\ report.success_rate # ZeroDivisionError
        /\ report.total_videos > 0 =>
              report.success_rate.num * report.total_videos
                  = report.success_count * 100 * report.success_rate.den
        /\ report.total_videos = 0 => report.success_rate = [num |-> 0, den |-> 1]

C5_Witness ==
    /\ report # NoReport
    /\ report.success_count >= 1
    /\ report.failed_count >= 1

\* the status and message a task's own URL and its own resolver outcomes call for
DictatedStatus(url, outs) ==
    IF detect_site(url) = "unknown" THEN "failed"
    ELSE IF outs # <<>> /\ outs[Len(outs)] = "ok" THEN "success" ELSE "failed"

DictatedMessage(url, outs) ==
    IF detect_site(url) = "unknown" THEN UnsupportedMessage
    ELSE LET raised == {i \in 1..Len(outs) : outs[i] \in {"timeout", "exception"}}
         IN  IF raised = {} THEN ""
             ELSE IF outs[CHOOSE i \in raised : \A j \in raised : j <= i] = "timeout"
                  THEN TimeoutMessage ELSE ExceptionMessage

\* C6: a task's result changes only in that task's own steps, and the task ends
\* with the status and message its own URL and its own resolver outcomes call
\* for, whatever the other tasks do.
C6_TaskIsolation ==
    /\ [][\A t \in Threads :
             (tpc'[t] = tpc[t] /\ tfmt'[t] = tfmt[t]) => tres'[t] = tres[t]]_vars
    /\ [](\A t \in Threads :
             Returned(t) =>
                 /\ tres[t].status = DictatedStatus(urls[t], touts[t])
                 /\ tres[t].error_message = DictatedMessage(urls[t], touts[t]))

\* a task that failed at extraction (all its formats failed) beside one that succeeded
C6_Witness ==
    \E k, t \in Threads :
        /\ tpc[k] = "finished" /\ tpc[t] = "finished"
        /\ tres[k].site \in handlers
        /\ tres[k].status = "failed" /\ tfmt[k] = Len(SiteConfig(tres[k].site).formats)
        /\ tres[t].status = "success" /\ tres[t].site = tres[k].site
        /\ results[1].id = k

\* C7: every worker thread contributes a result to the report, and a task
\* ended by an exception is recorded as failed with the exception's message.
C7_ExceptionBecomesFailedResult ==
    CallReturned =>
        \A t \in 1..Len(urls) :
            /\ Cardinality(EntriesOf(t)) = 1
            /\ tpc[t] = "died" =>
                  \E i \in EntriesOf(t) :
                      results[i].status = "failed" /\ results[i].error_message # ""

\* C9: when the report is built every started thread has ended, and every
\* result of the report is 'success' or 'failed'.
C9_ReportAfterJoin ==
    CallReturned =>
        /\ \A t \in 1..Len(urls) : Ended(t)
        /\ \A i \in 1..Len(report.results) :
              report.results[i].status \in {"success", "failed"}

C9_Witness ==
    /\ CallReturned
    /\ Len(urls) = MaxUrls
    /\ \A t \in 1..Len(urls) : tpc[t] = "finished"
    /\ \E i, j \in 1..Len(report.results) :
          report.results[i].status = "success" /\ report.results[j].status = "failed"

\* C10: the shared result list holds exactly one entry for each task that has
\* finished and none for any other, and each entry is the task's own result.
C10_OneEntryPerFinishedTask ==
    /\ \A t \in Threads :
          Cardinality(EntriesOf(t)) = (IF tpc[t] = "finished" THEN 1 ELSE 0)
    /\ \A i \in 1..Len(results) : results[i] = tres[results[i].id]

C10_Witness ==
    /\ mainPc = "running"
    /\ joined = Len(urls)
    /\ Len(urls) = MaxUrls
    /\ \A t \in 1..Len(urls) : tpc[t] = "finished"
    /\ results[1].id = Len(urls)

\* C11: results are appended in the order the tasks complete, and the report
\* lists the results of the call in the order they were appended, whatever the
\* position of their URLs in the submitted list.
C11_ReportInCompletionOrder ==
    /\ [][\A t \in Threads :
             (tpc[t] = "append" /\ tpc'[t] = "finished") =>
                 /\ Len(results') = Len(results) + 1
                 /\ results'[Len(results')].id = t
                 /\ \A i \in 1..Len(results) : results'[i] = results[i]]_vars
    /\ [](CallReturned =>
             /\ Len(report.results) >= Len(results)
             /\ \A i \in 1..Len(results) :
                   report.results[Len(report.results) - Len(results) + i]
                       = to_dict(results[i]))

\* the task submitted second completed first and is listed first; the two
\* results differ, so their order in the report can be told
C11_Witness ==
    /\ CallReturned
    /\ Len(results) = 2
    /\ results[1].id = 2 /\ results[2].id = 1
    /\ to_dict(results[1]) # to_dict(results[2])
    /\ report.results[1] = to_dict(results[1])

\* the resolver outcomes an error message tells of
ReasonsIn(msg) ==
    CASE msg = TimeoutMessage -> {"timeout"}
      [] msg = ExceptionMessage -> {"exception"}
      [] OTHER -> {}

\* C14: a result returned with status failed carries a non-empty error
\* message, and when all formats of the handler failed the message tells the
\* failure reason of every attempt.
C14_FailedCarriesReasons ==
    \A t \in Threads :
        (Returned(t) /\ tres[t].status = "failed") =>
            /\ tres[t].error_message # ""
            /\ {touts[t][i] : i \in 1..Len(touts[t])} \subseteq ReasonsIn(tres[t].error_message)

Terminal == {"success", "failed"}

FormatsOf(t) == SiteConfig(tres[t].site).formats

\* C20: a failed attempt (non-zero exit, timeout, exception) with formats left
\* untried does not end the task: the task stays in its handler with the status
\* pending, so that the next format is attempted; a handler marks the task
\* failed only in the step in which the last format of the chain fails.
C20_FailureAdvancesChain ==
    [][\A t \in Threads :
          (tpc[t] = "download" /\ Len(touts'[t]) = Len(touts[t]) + 1) =>
              LET k == Len(touts'[t])
                  o == touts'[t][k]
              IN  /\ (o # "ok" /\ k < Len(FormatsOf(t))) =>
                         (tpc'[t] = "download" /\ tres'[t].status = "pending")
                  /\ tres'[t].status = "failed" =>
                         (k = Len(FormatsOf(t)) /\ \A i \in 1..k : touts'[t][i] # "ok")]_vars

\* a task whose first format timed out and whose second format ended it
C20_Witness ==
    \E t \in Threads :
        /\ Len(touts[t]) = 2
        /\ touts[t][1] = "timeout"
        /\ tpc[t] \in {"append", "finished"}
        /\ tres[t].status \in {"success", "failed"}

\* C32: download_single_video terminates for every URL.  A handler makes at
\* most one resolver invocation per format of its platform's list (three for
\* bilibili, two for sohu and 360kan), the i-th invocation being the one of the
\* i-th format, it leaves the loop after the last format, and every started
\* worker ends, with its result or with the exception that left it; max_retries
\* adds no invocation.
C32_AttemptsBounded ==
    \A t \in Threads :
        (tres[t] # NoResult /\ tres[t].site \in handlers) =>
            LET formats == SiteConfig(tres[t].site).formats
            IN  /\ Len(touts[t]) <= Len(formats)
                /\ Len(formats) = (IF tres[t].site = "bilibili" THEN 3 ELSE 2)
                /\ tfmt[t] = Len(touts[t])
                /\ Len(touts[t]) = Len(formats) => tpc[t] \in {"append", "finished"}

C33_SuccessHasNoErrorMessage ==
    \A t \in Threads :
        (tres[t] # NoResult /\ tres[t].status = "success") => tres[t].error_message = ""

(***************************************************************************)
(* Properties of VideoDownloader.download_video, checked under SpecVD.     *)
(***************************************************************************)
\* the files in the directory that were not there when the task started
NewFiles == {f \in vdir : Name(f) \notin Names(vdir0)}

\* a string URL whose host contains none of VideoDownloader's site fragments
HostUnsupportedVD(url) ==
    url.isStr /\ \A i \in 1..Len(vd_supported_sites) : ~InHost(vd_supported_sites[i].domain, url)

\* C1, for download_video: a task whose URL's host contains no site fragment
\* makes no resolver or network call and returns False.
C1_UnknownHostNoResolverVD ==
    HostUnsupportedVD(vurl) =>
        /\ vnet = 0
        /\ vpc = "done" => vret = "False"

\* C2: when download_video returns True, exactly one file created by the task
\* is in the download directory, it is not empty and its name carries no
\* format qualifier.
C2_OneFinalFile ==
    vret = "True" =>
        /\ Cardinality(NewFiles) = 1
        /\ \A f \in NewFiles : f.size = 1 /\ f.fmt = ""

\* C8: download_video returns True or False for every input and no
\* exception leaves it.
C8_ReturnsBoolNeverRaises ==
    /\ vexc = "none"
    /\ vpc = "done" => vret \in {"True", "False"}

\* an invalid URL: the ValueError is turned into the return value False
C8_Witness ==
    /\ vpc = "done"
    /\ ~_validate_url(vurl)
    /\ vret = "False"
\* the stages of download_video in their declared order, and "done" after any
StageOrder == <<"worker", "validate", "resolver", "lookup", "extract", "fetch", "done",
                "stopped">>

StageIndex(pc) == CHOOSE i \in 1..Len(StageOrder) : StageOrder[i] = pc

C18_FetchKeepsExistingFiles ==
    [][vpc = "fetch" => vdir \subseteq vdir']_vars

\* the files a step creates: the paths that held no file before it
Created == {f \in vdir' : Name(f) \notin Names(vdir)}

\* C19: one fetch creates exactly one file or none: when _download_file
\* returns False no file it created is left in the download directory, and
\* when it returns True exactly one new file is.
C19_FetchOneFileOrNone ==
    [][vpc = "fetch" =>
          /\ vret' = "False" => Created = {}
          /\ vret' = "True" => Cardinality(Created) = 1]_vars

\* the positions of the calls named name in vcalls
CallsTo(name) == {i \in 1..Len(vcalls) : vcalls[i].call = name}

\* C21: a task that returned True classified the URL, extracted a video_info,
\* fetched, and ran the reconciliation pass after the fetch and before it
\* returned.
C21_SuccessAfterAllStages ==
    vret = "True" =>
        /\ vhandler # "none"
        /\ vinfo # NoInfo
        /\ CallsTo("requests.get") # {}
        /\ \E i \in CallsTo("_post_process_downloaded_files") :
              \A j \in CallsTo("requests.get") \cup CallsTo("ydl.download") : j < i

\* C22: every download-mode run of the resolver, the fallback of the Fetcher
\* included, is given the page URL of the task and never a media URL a handler
\* resolved.
C22_FallbackUsesPageUrl ==
    \A i \in CallsTo("ydl.download") : vcalls[i].url = "page"

\* C25: in a step that runs the reconciliation pass the task returns True
\* whatever the merges and repairs of the pass did, and a video-only or
\* audio-only file is removed only along with a merged file of its base: a
\* merge that fails leaves both of its sources in place as they were.
C25_ReconciliationNeverFailsTask ==
    [][(/\ Len(vcalls') > Len(vcalls)
        /\ vcalls'[Len(vcalls')].call = "_post_process_downloaded_files") =>
           /\ vret' = "True"
           /\ vexc' = "none"
           /\ \A f \in video_files(vdir) \cup audio_files(vdir) :
                 f \notin vdir' => Name(MergedFile(f.stem)) \in Names(vdir')]_vars

\* the pass of a successful task ran a merge that failed: the pair is still
\* there and no merged file is
C25_Witness ==
    /\ vret = "True"
    /\ CallsTo("_post_process_downloaded_files") # {}
    /\ PairBases(vdir) # {}
    /\ \A b \in PairBases(vdir) : Name(MergedFile(b)) \notin Names(vdir)
    /\ video_files(vdir0) \cup audio_files(vdir0) \subseteq vdir

\* C26: the reconciliation pass a task runs leaves the files of other tasks
\* alone: a file that was in the download directory when the task started and
\* whose title is not the title of this task is still there, as it was, after
\* the pass.
C26_ReconciliationOwnFilesOnly ==
    [][(/\ Len(vcalls') > Len(vcalls)
        /\ vcalls'[Len(vcalls')].call = "_post_process_downloaded_files") =>
           LET title == IF vinfo = NoInfo THEN ResolverTitle ELSE vinfo.title
           IN  \A f \in vdir0 : f.stem # title => f \in vdir']_vars

\* C28: _extract_sohu_video attempts its extraction strategies whether or not
\* the token of the URL decodes to a video id: every run of the handler makes
\* at least one resolver or browser invocation.
C28_NoIdentifierStillExtracts ==
    [][(vpc = "extract" /\ vhandler = "_extract_sohu_video") => vnet' > vnet]_vars

\* C29: once is_downloading is False and the stage that was in progress when
\* it was set has ended, the task starts no further stage: its only step is
\* to stop.
C29_NoStageAfterStop ==
    [][(vstop # "none" /\ vpc # vstop /\ vpc' # vpc) => vpc' = "stopped"]_vars

\* C37: _download_video_with_ytdlp returns True only if the resolver call of
\* this task created a file between the two snapshots, whatever another task
\* wrote into the directory meanwhile; it returns False (download_video goes on
\* to the site handlers) when the resolver raised or no file was added.
C37_TrueOnlyForOwnFile ==
    [][(vpc = "resolver" /\ vpc' # "resolver") =>
          /\ vret' = "True" => vsnap'.wrote # {}
          /\ (vsnap'.wrote \cup vsnap'.other = {}) => (vpc' = "lookup" /\ vret' = "unset")]_vars

(***************************************************************************)
(* Properties of classification, checked under SpecCls.                    *)
(***************************************************************************)
\* the first entry of a table whose domain fragment occurs in the host
FirstInHost(table, url) ==
    LET hits == {i \in 1..Len(table) : InHost(table[i].domain, url)}
    IN  IF hits = {} THEN 0 ELSE SeqMin(hits)

\* C12: each classifier returns the first platform of its table whose domain
\* fragment occurs in the URL's host, and unknown if none does; text outside
\* the host does not change the result.
C12_ClassificationByHost ==
    /\ cls["detect_site"] # "unset" =>
          cls["detect_site"] =
              (IF FirstInHost(supported_sites, cu) = 0 THEN "unknown"
               ELSE supported_sites[FirstInHost(supported_sites, cu)].site)
    /\ cls["config.detect_site"] # "unset" =>
          cls["config.detect_site"] =
              (IF FirstInHost(SITE_CONFIGS, cu) = 0 THEN "unknown"
               ELSE SITE_CONFIGS[FirstInHost(SITE_CONFIGS, cu)].site)
    /\ cls["download_video"] # "unset" =>
          cls["download_video"] =
              (IF FirstInHost(vd_supported_sites, cu) = 0 THEN "none"
               ELSE vd_supported_sites[FirstInHost(vd_supported_sites, cu)].handler)

\* C34: a URL that run_interactive_mode takes for a video URL, or that
\* DownloaderConfig.detect_site maps to a platform, is mapped by
\* OptimizedVideoDownloader.detect_site to a platform with a registered handler.
C34_ClassifiersAgree ==
    (cls["detect_site"] # "unset" /\ cls["config.detect_site"] # "unset") =>
        ((IsVideoUrl(cu) \/ cls["config.detect_site"] # "unknown") =>
            cls["detect_site"] \in handlers)
(***************************************************************************)
(* Properties of reconciliation, checked under SpecRec.                    *)
(***************************************************************************)
\* the operations of the last step that name the path n
OpsOn(n) == {o \in rops : o.name = n}

\* C16: after one pass, for every video-only and audio-only file of the same
\* base the merged file of the base has been written and both files are gone;
\* a video-only or audio-only file whose base has only one of the two variants
\* is still there as it was and no merge was run on it.
C16_PairsMergedOthersUntouched ==
    rstep.kind = "pass" =>
        /\ \A v \in video_files(rprev), a \in audio_files(rprev) :
              v.stem = a.stem =>
                  /\ Op("write", Name(MergedFile(v.stem))) \in rops
                  /\ Name(MergedFile(v.stem)) \in Names(rdir)
                  /\ Name(v) \notin Names(rdir)
                  /\ Name(a) \notin Names(rdir)
        /\ \A f \in video_files(rprev) \cup audio_files(rprev) :
              f.stem \notin PairBases(rprev) => (f \in rdir /\ OpsOn(Name(f)) = {})

\* C17: _verify_and_fix_audio on a file whose probe reports a bit rate of at
\* least 64000 and a sample rate of at least 22050 starts no repair and leaves
\* the directory as it was, however often it is repeated.
C17_HealthyFileUntouched ==
    (/\ rstep.kind = "verify"
     /\ rstep.probe.ok
     /\ rstep.probe.bit_rate >= MinBitRate
     /\ rstep.probe.sample_rate >= MinSampleRate) =>
        (rdir = rprev /\ rops = {})

\* the check has run a second time on a file exactly at both thresholds
C17_Witness ==
    /\ rstep.kind = "verify"
    /\ rsteps >= 2
    /\ rstep.probe.ok
    /\ rstep.probe.bit_rate = MinBitRate
    /\ rstep.probe.sample_rate = MinSampleRate
    /\ rstep.file \in rdir
\* C23: _verify_and_fix_audio invokes _fix_audio_stream on a file if and only
\* if the file has no audio stream, or its bit rate is unreadable or below
\* 64000, or its sample rate is below 22050.
C23_RepairedIffUnhealthy ==
    rstep.kind = "verify" =>
        (Op("repair", Name(rstep.file)) \in rops
            <=> \/ ~rstep.probe.ok
                \/ rstep.probe.bit_rate = Unparsable
                \/ rstep.probe.bit_rate < MinBitRate
                \/ (rstep.probe.sample_rate # Unparsable
                       /\ rstep.probe.sample_rate < MinSampleRate))

\* C24: after a repair of a file, whatever its outcome, a file is at the
\* original path; unless the repaired copy was renamed over it, that file is
\* the original as it was and no <stem>_fixed_audio.mp4 is left.
C24_RepairKeepsOriginalOrReplaces ==
    (rstep.kind = "verify" /\ Op("repair", Name(rstep.file)) \in rops) =>
        LET sibling == Name(FixedFile(Name(rstep.file)))
        IN  /\ Name(rstep.file) \in Names(rdir)
            /\ Op("rename", sibling) \notin rops =>
                   (rstep.file \in rdir /\ sibling \notin Names(rdir))

\* C27: after a pass every complete file of the directory, whatever its
\* container, and every file a merge of the pass produced has been probed,
\* and a merged file is probed only if a merge of the pass produced it.
C27_WholeFilesProbed ==
    rstep.kind = "pass" =>
        /\ \A f \in rprev : (f.fmt = "" /\ f \in rdir) => Name(f) \in rstep.probed
        /\ rstep.merged \subseteq rstep.probed
        /\ \A f \in rdir \ rprev : Name(f) \in rstep.probed => Name(f) \in rstep.merged

\* C38: in one pass at most one merge is run per base: the audio-only file of
\* a base is the input of one merge only, so that no merge is started on a
\* file an earlier merge deleted and no merged output is written twice.
C38_OneMergePerInput ==
    rstep.kind = "pass" =>
        \A v, w \in video_files(rprev) :
            (/\ v.stem = w.stem
             /\ Op("merge", Name(v)) \in rops
             /\ Op("merge", Name(w)) \in rops) => v = w

(***************************************************************************)
(* Properties of the browser strategies, checked under SpecSel.            *)
(***************************************************************************)
\* the positions of driver.quit() among the driver calls made
Quits == {i \in 1..Len(slog) : slog[i] = "quit"}

\* C30: when a browser strategy has returned and its driver had been created,
\* driver.quit() has been called exactly once and was the last driver call;
\* before the return, and when no driver was created, it has not been called.
C30_DriverQuitOnce ==
    /\ (spc = "done" /\ sdriver) => Quits = {Len(slog)}
    /\ (spc # "done" \/ ~sdriver) => Quits = {}

\* a run of _selenium_extract_360kan that ended through the outer except after
\* it had switched into an iframe
C30_Witness ==
    /\ sfn = "_selenium_extract_360kan"
    /\ spc = "done"
    /\ sdriver
    /\ sret = "none"
    /\ \E i \in 1..Len(slog) : slog[i] = "switch_to.frame"
    /\ Len(slog) >= 2 /\ slog[Len(slog) - 1] = "default_content"
    /\ sleft > 0

(***************************************************************************)
(* Properties of the window, checked under SpecGui.                        *)
(***************************************************************************)
\* the workers that are inside download_video
Downloading == {w \in Workers : wpc[w] = "download"}

\* C35: at most one worker is inside download_video at any time, and while a
\* worker is inside download_video is_downloading is True and the download
\* button is disabled.
C35_OneWorkerWhileDownloading ==
    /\ Cardinality(Downloading) <= 1
    /\ Downloading # {} => (is_downloading /\ download_btn = "disabled")

\* the messages of the types ts among the messages a worker has put
PutsOf(w, ts) == {i \in 1..Len(wput[w]) : wput[w][i] \in ts}

\* what a worker has put: no reset before it ends, and once it has ended one
\* reset, as the last message, and at most one success or error
C36_WorkerMessages ==
    \A w \in Workers :
        /\ Cardinality(PutsOf(w, {"success", "error"})) <= 1
        /\ IF wpc[w] = "ended"
           THEN /\ PutsOf(w, {"reset"}) = {Len(wput[w])}
                /\ Len(wput[w]) >= 1
           ELSE PutsOf(w, {"reset"}) = {}

\* the reset of a worker is handled after all its other messages, and leaves
\* the window ready
C36_ResetLeavesReady ==
    [][(message_queue # <<>> /\ message_queue' = Tail(message_queue)
            /\ Head(message_queue).type = "reset") =>
          LET w == Head(message_queue).w
          IN  /\ wdone'[w] = Len(wput[w])
              /\ wpc[w] = "ended"
              /\ ~is_downloading'
              /\ download_btn' = "normal"
              /\ status_var' = "ready"]_vars

\* every started worker has ended and all its messages have been handled; a
\* worker of which this holds stays so
WorkersDone ==
    \A w \in Workers :
        (wpc[w] # "new") => (wpc[w] = "ended" /\ wdone[w] = Len(wput[w]))

\* C36: every worker start_download started ends having put exactly one reset
\* message, as its last message, and at most one success or error message
\* before it, on every path; process_queue handles the messages in the order
\* they were put, so the reset is handled after the worker's other messages
\* and the window is ready then.  (Again and again all the workers started so
\* far are done: each started worker is eventually done.)
C36_WorkerEndsWithReset ==
    /\ []C36_WorkerMessages
    /\ C36_ResetLeavesReady
    /\ []<>WorkersDone

\* a worker that was stopped before it called download_video has ended and
\* its reset has been handled
C36_Witness ==
    \E w \in Workers :
        /\ wpc[w] = "ended"
        /\ wput[w] = <<"status", "progress", "reset">>
        /\ wdone[w] = 3

(***************************************************************************)
(* Properties of the raw page scrape, checked under SpecScrape.            *)
(***************************************************************************)
\* the place of a group in the collection order
GroupIndex(g) == CHOOSE i \in 1..Len(Groups) : Groups[i] = g

\* the condition the check is said to decide
SaidValid(s) ==
    /\ StrLen(s) >= 10
    /\ \/ ContainsAny(Lower(s), video_extensions)
       \/ ContainsAny(Lower(s), video_keywords)
       \/ StartsWithHttp(s) /\ StrLen(s) > 20

\* C31: _is_valid_video_url(u) is true exactly when u has at least ten
\* characters and holds a media extension, or a media keyword, or starts with
\* 'http' and has more than twenty characters; the scrape collects the video
\* tags, the source tags, the script text and the page text in this order and
\* returns the first entry that passes the check, ParseError when none does.
C31_FirstValidCandidate ==
    /\ pvalid # "unset" => (pvalid = "True" <=> SaidValid(pu))
    /\ \A i, j \in 1..Len(pcands) :
          i < j => GroupIndex(pcands[i].group) <= GroupIndex(pcands[j].group)
    /\ pres # NoScrape =>
          IF \A i \in 1..Len(pcands) : ~SaidValid(pcands[i].url)
          THEN pres.ret = "ParseError"
          ELSE /\ pres.ret = "info"
               /\ \E i \in 1..Len(pcands) :
                     /\ pres.url = pcands[i].url
                     /\ SaidValid(pcands[i].url)
                     /\ \A k \in 1..(i - 1) : ~SaidValid(pcands[k].url)

\* the scrape passed over an entry that fails the check and returned a later
\* one, found in a later place of the page
C31_Witness ==
    /\ pres # NoScrape
    /\ pres.ret = "info"
    /\ Len(pcands) = 2
    /\ ~_is_valid_video_url(pcands[1].url)
    /\ pres.url = pcands[2].url
    /\ pcands[1].group # pcands[2].group

=============================================================================
